---- MODULE Spec2Model ----
(***************************************************************************)
(* State-machine model of the dual-backend storage subsystem of In-Memoria *)
(* (QdrantVectorStorage and PostgreSQLStorage, src/unnamed/part_000).      *)
(*                                                                         *)
(* JavaScript runs the asynchronous methods of one client cooperatively:   *)
(* a method runs without interruption up to its next `await`, where other  *)
(* calls may run.  Each action below is one such uninterrupted stretch.    *)
(***************************************************************************)
EXTENDS Integers, Sequences, FiniteSets, TLC

(***************************************************************************)
(* Bounds of the model.                                                    *)
(***************************************************************************)
\* Capacity of the embedding cache.  The source sets EMBEDDING_CACHE_SIZE to
\* 1000 (part_000:64); the model scales it down so that a full cache and an
\* overflow are reached.
EMBEDDING_CACHE_SIZE == 2

\* Failure threshold and cooldown (in clock ticks) of the circuit breaker:
\* configuration inputs of the breaker (spec 4.2).
FailureThreshold == 2
Cooldown == 2

\* Instants of the wall clock (new Date(), CURRENT_TIMESTAMP): 0..MaxNow.
MaxNow == 2

(***************************************************************************)
(* Program constants.                                                      *)
(***************************************************************************)
EMBEDDING_DIMENSION == 1536
LOCAL_EMBEDDING_DIMENSION == 384

\* generateEmbedding calls that may be in flight at once.
Callers == {1, 2}

\* Texts are JavaScript strings, modelled as sequences of UTF-16 code units:
\* "", "a" and "ab".
Texts == {<< >>, <<97>>, <<97, 98>>}

\* Values of config.vectorSize used by the repository's configurations
\* (test-helpers.ts:220, part_005:99); an absent value defaults to
\* EMBEDDING_DIMENSION (part_000:72).
VectorSizes == {LOCAL_EMBEDDING_DIMENSION, EMBEDDING_DIMENSION}

\* Slots in which the vector store client's methods run.
VecCallers == {1}

\* Slots in which the relational client's batch inserts run.
RelCallers == {1}

\* Pool sizes (config.poolSize).
PoolSizes == {1, 2}

\* Point ids (metadata.id) of the vector store.
DocIds == {"d1", "d2"}

VARIABLES
    \* ---- QdrantVectorStorage fields
    vectorSize,              \* this.vectorSize
    apiKeyGiven,             \* this.apiKey || process.env.OPENAI_API_KEY is set
    apiKey,                  \* this.apiKey, "none" when undefined
    storageConfig,           \* history: the configuration and the environment
                             \* the client was created from
    initialized,             \* this.initialized
    openaiClient,            \* this.openaiClient is defined
    localEmbeddingPipeline,  \* this.localEmbeddingPipeline is a loaded pipeline
    embeddingCache,          \* this.embeddingCache: a Map, in insertion order
    \* ---- the circuit breaker guarding the remote embedding provider
    brState,                 \* "closed", "open" or "half-open"
    brFailures,              \* consecutive failures counted
    brSince,                 \* clock ticks since the last failure, up to Cooldown
    consecFails,             \* history: provider calls that failed in a row
    \* ---- calls in flight, one per slot
    pc,                      \* position of the call
    text,                    \* argument of its generateEmbedding call
    pending,                 \* the embedding a tier produced, not yet cached
    events,                  \* what generateEmbedding did: tiers, errors absorbed
    trial,                   \* it was admitted as the breaker's half-open trial
    frame,                   \* the method that runs in the slot, and its locals
    emb,                     \* what its generateEmbedding call settled with
    \* ---- the generateEmbedding call that settled last, as its caller saw it
    last,                    \* [text, ret, events]
    lastStanding,            \* no close() since it settled
    \* ---- the vector store (Qdrant) behind the REST interface
    collExists,              \* the collection exists
    points,                  \* its points, by id
    \* ---- the vector store method that settled last, as its caller saw it
    vlast,                   \* [op, ready, outcome, sent, val]
    \* ---- PostgreSQLStorage fields
    relInitialized,          \* this.initialized
    pool,                    \* this.pool: "null" or "open"
    poolSize,                \* config.poolSize: connections the pool may open
    \* ---- the database behind the pool
    checkedOut,              \* connections handed out by pool.connect()
    schema,                  \* the four tables and their indexes exist
    ledger,                  \* the migrations table: [exists, versions]
    rows,                    \* committed rows of the four tables, by key
    txWrites,                \* rows written on a checked-out connection since BEGIN
    \* ---- batch inserts in flight, one per slot
    rpc,                     \* position of the call
    rframe,                  \* its locals
    \* ---- the call of the relational client that settled last
    rlast,                   \* [op, outcome, failedAt, unchanged, present, queried, val]
    \* ---- the wall clock both clients and the database read
    now

cfgVars == <<vectorSize, apiKeyGiven, apiKey, storageConfig>>
provVars == <<openaiClient, localEmbeddingPipeline>>
embedVars == <<cfgVars, initialized, provVars, embeddingCache>>
breakerVars == <<brState, brFailures, brSince, consecFails>>
callVars == <<pc, text, pending, events, trial>>
frameVars == <<frame, emb>>
lastVars == <<last, lastStanding>>
storeVars == <<collExists, points>>

vecVars == <<embedVars, breakerVars, callVars, frameVars, lastVars, storeVars, vlast>>
poolVars == <<relInitialized, pool, poolSize, checkedOut>>
dbVars == <<schema, ledger>>
relVars == <<poolVars, dbVars, rows, txWrites, rpc, rframe, rlast>>

vars == <<vecVars, relVars, now>>

(***************************************************************************)
(* Vectors.  An embedding is represented by the tier that produced it, its *)
(* length and the 32-bit content hash of the text it was computed from:    *)
(* every component of the fallback vector is sin(hash * (i+1)) * 0.1, a    *)
(* function of the hash alone.                                             *)
(***************************************************************************)
NoVec == [tier |-> "none", len |-> 0, seed |-> 0]

\* One round of simpleHash: hash = ((hash << 5) - hash) + char; hash & hash,
\* that is (31 * hash + char) wrapped to a signed 32-bit integer.  Computed on
\* 16-bit halves to stay within the model checker's integers.
HashStep(hash, char) ==
    LET lo == hash % 65536
        hi == (hash \div 65536) % 65536
        lo2 == lo * 31 + char
        hi2 == (hi * 31 + (lo2 \div 65536)) % 65536
    IN  (IF hi2 >= 32768 THEN hi2 - 65536 ELSE hi2) * 65536 + (lo2 % 65536)

RECURSIVE HashFrom(_, _)
HashFrom(hash, str) ==
    IF str = << >> THEN hash
    ELSE HashFrom(HashStep(hash, Head(str)), Tail(str))

simpleHash(str) == HashFrom(0, str)

generateFallbackEmbedding(t) ==
    [tier |-> "fallback", len |-> LOCAL_EMBEDDING_DIMENSION, seed |-> simpleHash(t)]

\* Array.from(output.data) of the all-MiniLM-L6-v2 pipeline.
LocalModelVector(t) ==
    [tier |-> "local", len |-> LOCAL_EMBEDDING_DIMENSION, seed |-> simpleHash(t)]

\* response.data[0].embedding of text-embedding-ada-002.
RemoteVector(t) ==
    [tier |-> "remote", len |-> EMBEDDING_DIMENSION, seed |-> simpleHash(t)]

\* new Array(this.vectorSize).fill(0)
ZeroVector(size) == [tier |-> "zero", len |-> size, seed |-> 0]

(***************************************************************************)
(* The embedding cache: a Map<string, number[]> kept as the sequence of    *)
(* its entries in insertion order.                                         *)
(***************************************************************************)
CacheKeys(cache) == {cache[i].key : i \in 1..Len(cache)}

CacheHas(cache, t) == t \in CacheKeys(cache)

CacheGet(cache, t) ==
    LET i == CHOOSE j \in 1..Len(cache) : cache[j].key = t IN cache[i].val

\* Map.prototype.delete
MapDelete(cache, k) == SelectSeq(cache, LAMBDA e : e.key # k)

\* Map.prototype.set: an existing key keeps its place, a new one goes last.
MapSet(cache, k, v) ==
    IF CacheHas(cache, k)
    THEN [i \in 1..Len(cache) |->
             IF cache[i].key = k THEN [key |-> k, val |-> v] ELSE cache[i]]
    ELSE Append(cache, [key |-> k, val |-> v])

\* if (firstKey): a JavaScript string is truthy unless it is empty.
Truthy(str) == str # << >>

\* The eviction step of generateEmbedding.
CacheEvict(cache) ==
    IF Len(cache) >= EMBEDDING_CACHE_SIZE
    THEN LET firstKey == cache[1].key
         IN  IF Truthy(firstKey) THEN MapDelete(cache, firstKey) ELSE cache
    ELSE cache

\* "Cache the result": evict if full, then set.
CachePut(cache, t, v) == MapSet(CacheEvict(cache), t, v)


(***************************************************************************)
(* The circuit breaker (utils/circuit-breaker.js, created by               *)
(* createOpenAICircuitBreaker).  closed: calls pass and failures are       *)
(* counted; open: calls short-circuit with a fixed error; half-open: after *)
(* the cooldown one trial call is allowed.                                 *)
(***************************************************************************)
BreakerStates == {"closed", "open", "half-open"}

CooldownElapsed(since) == since >= Cooldown

\* execute(fn) lets the call through: closed, or open with the cooldown over
\* (the call is then the half-open trial).  While a trial is in flight
\* (half-open) no second call is let through.
BreakerAdmits(st, since) ==
    \/ st = "closed"
    \/ st = "open" /\ CooldownElapsed(since)

\* The state an admitted call leaves behind before fn is invoked.
BreakerOnAdmit(st) == IF st = "open" THEN "half-open" ELSE st

\* fn resolved.
BreakerOnSuccess(st, failures, since) ==
    [state |-> "closed", failures |-> 0, since |-> since]

\* Failures are counted up to the threshold: only "threshold reached" is read.
CountFailure(failures) ==
    IF failures < FailureThreshold THEN failures + 1 ELSE failures

\* (mutant) a failed trial that is only counted, like any other failure.
BreakerOnFailureCountOnly(st, failures, since, wasTrial) ==
    [state |-> IF CountFailure(failures) >= FailureThreshold /\ st = "closed"
               THEN "open" ELSE st,
     failures |-> CountFailure(failures),
     since |-> 0]

\* fn rejected: count it, restart the cooldown, open when the threshold is
\* reached or when the failed call was the half-open trial.
BreakerOnFailure(st, failures, since, wasTrial) ==
    [state |-> IF wasTrial \/ CountFailure(failures) >= FailureThreshold
               THEN "open" ELSE st,
     failures |-> CountFailure(failures),
     since |-> 0]

(***************************************************************************)
(* What a call settles with.                                               *)
(***************************************************************************)
NoRet == [kind |-> "none", vec |-> NoVec, err |-> "none"]
Resolved(v) == [kind |-> "resolved", vec |-> v, err |-> "none"]
Rejected(e) == [kind |-> "rejected", vec |-> NoVec, err |-> e]

NoCall == [text |-> << >>, ret |-> NoRet, events |-> {}]

\* (mutant) a catch block that logs and rethrows, as initialize() does.
GenCatchRethrow(size, err) == Rejected(err)

\* The catch block of generateEmbedding: log, return the zero vector.
GenCatch(size, err) == Resolved(ZeroVector(size))

\* (mutant) embeddings.create called directly, not through the breaker.
RemoteAdmitsDirect(st, since) == TRUE

\* The remote branch of generateEmbedding goes through
\* openaiCircuitBreaker.execute: the breaker decides whether
\* embeddings.create is invoked.
RemoteAdmits(st, since) == BreakerAdmits(st, since)

(***************************************************************************)
(* The method running in a slot.  op "generateEmbedding" is a direct call  *)
(* of generateEmbedding; the other methods call it and go on when it has   *)
(* settled (pc "embedded").                                                *)
(***************************************************************************)
Absent == -1

NoOptions == [limit |-> Absent, threshold |-> Absent]
NoUpdates == [given |-> FALSE, str |-> << >>, tag |-> "none"]
NoPoint == [id |-> "none", vector |-> NoVec, content |-> << >>, tag |-> "none",
            lastModified |-> "none", created |-> 0, updated |-> 0]

NoFrame ==
    [op |-> "none", ready |-> FALSE, id |-> "none", tag |-> "none",
     opts |-> NoOptions, updates |-> NoUpdates, existing |-> NoPoint,
     todo |-> << >>, built |-> << >>, next |-> 0, sent |-> << >>,
     progress |-> 0]

DirectFrame == [NoFrame EXCEPT !.op = "generateEmbedding"]

\* generateEmbedding(t), running in slot c for the method of frame f, settles
\* with r.  A direct call hands r to its caller and frees the slot; inside
\* another method, that method goes on with r.
Settle(c, f, t, r, ev) ==
    IF f.op = "generateEmbedding"
    THEN /\ last' = [text |-> t, ret |-> r, events |-> ev]
         /\ lastStanding' = TRUE
         /\ pc' = [pc EXCEPT ![c] = "idle"]
         /\ text' = [text EXCEPT ![c] = << >>]
         /\ pending' = [pending EXCEPT ![c] = NoVec]
         /\ events' = [events EXCEPT ![c] = {}]
         /\ trial' = [trial EXCEPT ![c] = FALSE]
         /\ frame' = [frame EXCEPT ![c] = NoFrame]
         /\ UNCHANGED emb
    ELSE /\ emb' = [emb EXCEPT ![c] = r]
         /\ pc' = [pc EXCEPT ![c] = "embedded"]
         /\ text' = [text EXCEPT ![c] = t]
         /\ pending' = [pending EXCEPT ![c] = NoVec]
         /\ events' = [events EXCEPT ![c] = ev]
         /\ trial' = [trial EXCEPT ![c] = FALSE]
         /\ frame' = [frame EXCEPT ![c] = f]
         /\ UNCHANGED lastVars

\* generateEmbedding awaits a tier: the slot waits at position p.
Await(c, f, t, p, ev) ==
    /\ pc' = [pc EXCEPT ![c] = p]
    /\ text' = [text EXCEPT ![c] = t]
    /\ events' = [events EXCEPT ![c] = ev]
    /\ frame' = [frame EXCEPT ![c] = f]
    /\ UNCHANGED <<emb, lastVars>>

(***************************************************************************)
(* generateEmbedding(text), part_000:179-217, entered from the method of   *)
(* frame f in slot c.  It reads no more than the embedding fields.         *)
(***************************************************************************)
\* A cache hit: the cached vector is returned at once.
GenHit(c, f, t) ==
    /\ CacheHas(embeddingCache, t)
    /\ Settle(c, f, t, Resolved(CacheGet(embeddingCache, t)), {"hit"})
    /\ UNCHANGED <<embeddingCache, breakerVars>>

\* A cache miss with openaiClient set: execute() either invokes
\* embeddings.create, which is awaited, or rejects with the open-circuit error,
\* which the catch block turns into the zero vector.
GenRemote(c, f, t) ==
    /\ ~CacheHas(embeddingCache, t)
    /\ openaiClient
    /\ IF RemoteAdmits(brState, brSince)
       THEN /\ brState' = BreakerOnAdmit(brState)
            /\ trial' = [trial EXCEPT ![c] = (brState = "open")]
            /\ Await(c, f, t, "remote", {"remote"})
            /\ UNCHANGED <<pending, brFailures, brSince, consecFails>>
       ELSE /\ Settle(c, f, t, GenCatch(vectorSize, "circuit-open"), {"circuit-open"})
            /\ UNCHANGED breakerVars
    /\ UNCHANGED embeddingCache

\* A cache miss without openaiClient: generateLocalEmbedding awaits the
\* pipeline if one is loaded, and returns the hash-based vector otherwise.
GenLocal(c, f, t) ==
    /\ ~CacheHas(embeddingCache, t)
    /\ ~openaiClient
    /\ IF localEmbeddingPipeline
       THEN /\ Await(c, f, t, "local", {"local"})
            /\ UNCHANGED pending
       ELSE /\ Await(c, f, t, "insert", {"fallback"})
            /\ pending' = [pending EXCEPT ![c] = generateFallbackEmbedding(t)]
    /\ UNCHANGED <<trial, embeddingCache, breakerVars>>

\* generateEmbedding(t) up to its first await.
GenBegin(c, f, t) == GenHit(c, f, t) \/ GenRemote(c, f, t) \/ GenLocal(c, f, t)

\* embeddings.create resolves: the breaker records the success.
RemoteOk(c) ==
    /\ pc[c] = "remote"
    /\ LET br == BreakerOnSuccess(brState, brFailures, brSince)
       IN  /\ brState' = br.state
           /\ brFailures' = br.failures
           /\ brSince' = br.since
    /\ consecFails' = 0
    /\ pending' = [pending EXCEPT ![c] = RemoteVector(text[c])]
    /\ pc' = [pc EXCEPT ![c] = "insert"]
    /\ UNCHANGED <<text, events, trial, frameVars, embedVars, lastVars, storeVars, vlast>>

\* A variant of the catch block that stores the zero vector it returns.
RemoteFailCaches(c) ==
    /\ pc[c] = "remote"
    /\ LET br == BreakerOnFailure(brState, brFailures, brSince, trial[c])
       IN  /\ brState' = br.state
           /\ brFailures' = br.failures
           /\ brSince' = br.since
    /\ consecFails' = IF consecFails < FailureThreshold
                      THEN consecFails + 1 ELSE consecFails
    /\ Settle(c, frame[c], text[c], GenCatch(vectorSize, "provider-error"),
              events[c] \cup {"remote-error"})
    /\ embeddingCache' = CachePut(embeddingCache, text[c], ZeroVector(vectorSize))
    /\ UNCHANGED <<cfgVars, initialized, provVars, storeVars, vlast>>

\* embeddings.create rejects: the breaker records the failure and
\* generateEmbedding catches the error.
RemoteFail(c) ==
    /\ pc[c] = "remote"
    /\ LET br == BreakerOnFailure(brState, brFailures, brSince, trial[c])
       IN  /\ brState' = br.state
           /\ brFailures' = br.failures
           /\ brSince' = br.since
    /\ consecFails' = IF consecFails < FailureThreshold
                      THEN consecFails + 1 ELSE consecFails
    /\ Settle(c, frame[c], text[c], GenCatch(vectorSize, "provider-error"),
              events[c] \cup {"remote-error"})
    /\ UNCHANGED <<embedVars, storeVars, vlast>>

\* The local pipeline settles; generateLocalEmbedding catches its failure and
\* returns the hash-based vector instead.
LocalReturn(c, ok) ==
    /\ pc[c] = "local"
    /\ IF ok
       THEN /\ pending' = [pending EXCEPT ![c] = LocalModelVector(text[c])]
            /\ UNCHANGED events
       ELSE /\ pending' = [pending EXCEPT ![c] = generateFallbackEmbedding(text[c])]
            /\ events' = [events EXCEPT ![c] = @ \cup {"local-error", "fallback"}]
    /\ pc' = [pc EXCEPT ![c] = "insert"]
    /\ UNCHANGED <<text, trial, frameVars, embedVars, breakerVars, lastVars,
                   storeVars, vlast>>

\* "Cache the result" and return it.
GenInsert(c) ==
    /\ pc[c] = "insert"
    /\ embeddingCache' = CachePut(embeddingCache, text[c], pending[c])
    /\ Settle(c, frame[c], text[c], Resolved(pending[c]), events[c])
    /\ UNCHANGED <<cfgVars, initialized, provVars, breakerVars, storeVars, vlast>>

\* A direct call generateEmbedding(t) in a free slot.
GenerateEmbedding(c, t) ==
    /\ pc[c] = "idle"
    /\ GenBegin(c, DirectFrame, t)
    /\ UNCHANGED <<cfgVars, initialized, provVars, storeVars, vlast>>

\* Time passes while the breaker is open.
Tick ==
    /\ brState = "open"
    /\ brSince < Cooldown
    /\ brSince' = brSince + 1
    /\ UNCHANGED <<brState, brFailures, consecFails, embedVars, callVars,
                   frameVars, lastVars, storeVars, vlast>>

(***************************************************************************)
(* The vector store.  A point is [id, vector, content, tag, lastModified,  *)
(* created, updated]: the payload's metadata is its id, a string field,    *)
(* tag, and lastModified, a Date in CodeMetadata (part_003:6-15), of which *)
(* the model keeps the type of the value; created and updated are          *)
(* instants.  Whether the server is up when a request arrives is an input, *)
(* up, of the step that sends it.  It answers a request on the collection  *)
(* when it is up and the collection exists, and with an error otherwise,   *)
(* which makeRequest (part_000:610-637) throws.                            *)
(***************************************************************************)
Tags == {"t0", "t1"}

\* The point storeCodeEmbedding and storeMultipleEmbeddings build for the
\* caller's metadata: created and updated are the present instant.
Point(id, v, content, tag) ==
    [id |-> id, vector |-> v, content |-> content, tag |-> tag,
     lastModified |-> "Date", created |-> now, updated |-> now]

\* JSON.stringify of a request body (part_000:626): a Date becomes its ISO
\* string; strings and numbers stay what they are.
ToJSON(x) == IF x = "Date" THEN "string" ELSE x

Serialize(pt) == [pt EXCEPT !.lastModified = ToJSON(@)]

EmptyCollection == [d \in DocIds |-> NoPoint]

Stored(store) == {d \in DocIds : store[d] # NoPoint}

RECURSIVE UpsertPoints(_, _)
UpsertPoints(store, pts) ==
    IF pts = << >> THEN store
    ELSE UpsertPoints([store EXCEPT ![Head(pts).id] = Serialize(Head(pts))],
                      Tail(pts))

RootAnswers(up) == up
CollectionAnswers(up) == up /\ collExists

\* Order of the ids in the server's listings.
IdRank(d) == IF d = "d1" THEN 1 ELSE 2

\* Similarity of two vectors, in percent.
Score(q, v) == IF q = v THEN 100 ELSE IF q.tier = v.tier THEN 50 ELSE 0

Hit(store, q, d) ==
    [id |-> d, code |-> store[d].content, tag |-> store[d].tag,
     similarity |-> Score(q, store[d].vector)]

RECURSIVE Ranked(_, _, _)
Ranked(store, q, ids) ==
    IF ids = {} THEN << >>
    ELSE LET best == CHOOSE d \in ids : \A e \in ids :
                         \/ Score(q, store[d].vector) > Score(q, store[e].vector)
                         \/ /\ Score(q, store[d].vector) = Score(q, store[e].vector)
                            /\ IdRank(d) <= IdRank(e)
         IN  <<Hit(store, q, best)>> \o Ranked(store, q, ids \ {best})

Take(seq, n) == SubSeq(seq, 1, IF n < Len(seq) THEN n ELSE Len(seq))

\* POST /points/search: the points scoring at least score_threshold, best
\* first, at most limit of them.
QdrantSearch(store, q, limit, threshold) ==
    Take(Ranked(store, q, {d \in Stored(store) :
                               Score(q, store[d].vector) >= threshold}), limit)

RECURSIVE Listed(_, _)
Listed(store, ids) ==
    IF ids = {} THEN << >>
    ELSE LET first == CHOOSE d \in ids : \A e \in ids : IdRank(d) <= IdRank(e)
         IN  <<store[first]>> \o Listed(store, ids \ {first})

\* POST /points/scroll: the first limit points.
QdrantScroll(store, limit) == Take(Listed(store, Stored(store)), limit)

\* POST /points/delete with a filter: "all" matches every point, a tag matches
\* the points that carry it.
FilterMatches(filter, pt) == filter = "all" \/ pt.tag = filter

(***************************************************************************)
(* How a method of the vector store client settles.                        *)
(***************************************************************************)
\* What a method resolves to is kept as a record with one field named after it
\* (id, ids, results, document, ...): void, and the value of a call that
\* failed, is NoVal.
NoVal == [none |-> TRUE]

NoAnswer == [op |-> "none", ready |-> FALSE, outcome |-> "none",
             sent |-> << >>, val |-> NoVal]

Answer(o, ready, outcome, sent, val) ==
    vlast' = [op |-> o, ready |-> ready, outcome |-> outcome,
              sent |-> sent, val |-> val]

\* The guard at the top of a data-plane method.
NotInitialized(o) == Answer(o, FALSE, "not-initialized", << >>, NoVal)

\* The slot is free again.
Release(c) ==
    /\ pc' = [pc EXCEPT ![c] = "idle"]
    /\ text' = [text EXCEPT ![c] = << >>]
    /\ pending' = [pending EXCEPT ![c] = NoVec]
    /\ events' = [events EXCEPT ![c] = {}]
    /\ trial' = [trial EXCEPT ![c] = FALSE]
    /\ frame' = [frame EXCEPT ![c] = NoFrame]
    /\ emb' = [emb EXCEPT ![c] = NoRet]

Method(o) == [NoFrame EXCEPT !.op = o, !.ready = initialized]

\* The defaults of searchByEmbedding and listDocuments: x || d.
OrDefault(x, d) == IF x = Absent \/ x = 0 THEN d ELSE x
\* An option as the specification reads it: the default only when omitted.
OrDefaultWhenOmitted(x, d) == IF x = Absent THEN d ELSE x

DefaultLimit == 10
DefaultThreshold == 70

\* The page of listDocuments: limit || 100 (part_000:473).  The model scales
\* the page down so that a collection can hold more points than one page.
DefaultScrollLimit == 1

\* Points per upsert request in storeMultipleEmbeddings and importData.
batchSize == 1

(***************************************************************************)
(* storeCodeEmbedding(code, metadata), part_000:258-283.                   *)
(***************************************************************************)
StoreCodeEmbedding(c, code, id, tag) ==
    /\ pc[c] = "idle"
    /\ IF ~initialized
       THEN /\ NotInitialized("storeCodeEmbedding")
            /\ UNCHANGED <<callVars, frameVars, lastVars, embeddingCache, breakerVars>>
       ELSE /\ GenBegin(c, [Method("storeCodeEmbedding") EXCEPT !.id = id, !.tag = tag],
                        code)
            /\ UNCHANGED vlast
    /\ UNCHANGED <<cfgVars, initialized, provVars, storeVars>>

\* The embedding is there: PUT the point.
StoreCodeEmbeddingPut(c, up) ==
    /\ pc[c] = "embedded"
    /\ frame[c].op = "storeCodeEmbedding"
    /\ LET f == frame[c]
           point == Point(f.id, emb[c].vec, text[c], f.tag)
       IN  IF emb[c].kind = "rejected"
           THEN /\ Answer(f.op, f.ready, "error", << >>, NoVal)
                /\ UNCHANGED points
           ELSE IF CollectionAnswers(up)
           THEN /\ points' = UpsertPoints(points, <<point>>)
                /\ Answer(f.op, f.ready, "ok", <<"PUT points">>, [id |-> f.id])
           ELSE /\ Answer(f.op, f.ready, "error", <<"PUT points">>, NoVal)
                /\ UNCHANGED points
    /\ Release(c)
    /\ UNCHANGED <<embedVars, breakerVars, lastVars, collExists>>

(***************************************************************************)
(* storeMultipleEmbeddings(codeChunks, metadataList), part_000:285-345,    *)
(* and importData, part_000:572-599.                                       *)
(***************************************************************************)
\* A variant of the length check that rejects longer chunk lists only.
LengthsDifferOneWay(codeChunks, metadataList) == Len(codeChunks) > Len(metadataList)

\* codeChunks.length !== metadataList.length
LengthsDiffer(codeChunks, metadataList) == Len(codeChunks) # Len(metadataList)

\* The first onProgress call precedes the first generateEmbedding.
StoreMultipleEmbeddings(c, codeChunks, metadataList) ==
    /\ pc[c] = "idle"
    /\ IF ~initialized
       THEN /\ NotInitialized("storeMultipleEmbeddings")
            /\ UNCHANGED <<callVars, frameVars, lastVars, embeddingCache, breakerVars>>
       ELSE IF LengthsDiffer(codeChunks, metadataList)
       THEN /\ Answer("storeMultipleEmbeddings", TRUE, "validation", << >>, NoVal)
            /\ UNCHANGED <<callVars, frameVars, lastVars, embeddingCache, breakerVars>>
       ELSE IF codeChunks = << >>
       THEN /\ Answer("storeMultipleEmbeddings", TRUE, "ok", << >>, [ids |-> << >>])
            /\ UNCHANGED <<callVars, frameVars, lastVars, embeddingCache, breakerVars>>
       ELSE /\ GenBegin(c, [Method("storeMultipleEmbeddings") EXCEPT
                               !.id = Head(metadataList).id,
                               !.tag = Head(metadataList).tag,
                               !.progress = 1,
                               !.todo = [i \in 1..(Len(codeChunks) - 1) |->
                                           [code |-> codeChunks[i + 1],
                                            id |-> metadataList[i + 1].id,
                                            tag |-> metadataList[i + 1].tag]]],
                        Head(codeChunks))
            /\ UNCHANGED vlast
    /\ UNCHANGED <<cfgVars, initialized, provVars, storeVars>>

\* An embedding of the loop is there: push the point, go on with the next
\* chunk, or with the batches when there is none.
StoreMultipleEmbeddingsNext(c) ==
    /\ pc[c] = "embedded"
    /\ frame[c].op = "storeMultipleEmbeddings"
    /\ LET f == frame[c]
           point == Point(f.id, emb[c].vec, text[c], f.tag)
           built == Append(f.built, point)
       IN  IF emb[c].kind = "rejected"
           THEN /\ Answer(f.op, f.ready, "error", << >>, NoVal)
                /\ Release(c)
                /\ UNCHANGED <<lastVars, embeddingCache, breakerVars>>
           ELSE IF f.todo # << >>
           THEN /\ GenBegin(c, [f EXCEPT !.id = Head(f.todo).id,
                                         !.tag = Head(f.todo).tag,
                                         !.todo = Tail(f.todo),
                                         !.progress = f.progress + 1,
                                         !.built = built],
                            Head(f.todo).code)
                /\ UNCHANGED vlast
           ELSE /\ pc' = [pc EXCEPT ![c] = "batch"]
                /\ frame' = [frame EXCEPT ![c] = [f EXCEPT !.built = built, !.next = 1]]
                /\ text' = [text EXCEPT ![c] = << >>]
                /\ events' = [events EXCEPT ![c] = {}]
                /\ emb' = [emb EXCEPT ![c] = NoRet]
                /\ UNCHANGED <<pending, trial, vlast, lastVars, embeddingCache, breakerVars>>
    /\ UNCHANGED <<cfgVars, initialized, provVars, storeVars>>

ImportData(c, documents) ==
    /\ pc[c] = "idle"
    /\ IF ~initialized
       THEN /\ NotInitialized("importData")
            /\ UNCHANGED <<callVars, frameVars>>
       ELSE IF documents = << >>
       THEN /\ Answer("importData", TRUE, "ok", << >>, NoVal)
            /\ UNCHANGED <<callVars, frameVars>>
       ELSE /\ pc' = [pc EXCEPT ![c] = "batch"]
            /\ frame' = [frame EXCEPT ![c] =
                            [Method("importData") EXCEPT !.built = documents, !.next = 1]]
            /\ UNCHANGED <<text, pending, events, trial, emb, vlast>>
    /\ UNCHANGED <<embedVars, breakerVars, lastVars, storeVars>>

\* A variant of the slice that takes all the remaining points at once.
BatchUpToEnd(next, len) == len

\* points.slice(i, i + batchSize) ends with the point at this index.
BatchUpTo(next, len) ==
    IF next + batchSize - 1 < len THEN next + batchSize - 1 ELSE len

\* One turn of the batch loop: the next batchSize points go out in one PUT; a
\* failure ends the method, the last batch ends it too.
UpsertBatch(c, up) ==
    /\ pc[c] = "batch"
    /\ LET f == frame[c]
           upTo == BatchUpTo(f.next, Len(f.built))
           batch == SubSeq(f.built, f.next, upTo)
           sent == Append(f.sent, "PUT points")
           ids == [i \in 1..Len(f.built) |-> f.built[i].id]
       IN  IF ~CollectionAnswers(up)
           THEN /\ Answer(f.op, f.ready, "error", sent, NoVal)
                /\ Release(c)
                /\ UNCHANGED points
           ELSE /\ points' = UpsertPoints(points, batch)
                /\ IF upTo < Len(f.built)
                   THEN /\ frame' = [frame EXCEPT ![c] =
                                        [f EXCEPT !.next = upTo + 1, !.sent = sent]]
                        /\ UNCHANGED <<callVars, emb, vlast>>
                   ELSE /\ Answer(f.op, f.ready, "ok", sent,
                                  IF f.op = "importData" THEN NoVal ELSE [ids |-> ids])
                        /\ Release(c)
    /\ UNCHANGED <<embedVars, breakerVars, lastVars, collExists>>

(***************************************************************************)
(* searchSimilarCode, part_000:347-353, and searchByEmbedding, 355-379.    *)
(***************************************************************************)
\* searchByEmbedding(embedding, options), called when ready was the value of
\* initialized as the caller's method o was invoked.
SearchByEmbeddingAnswer(o, ready, embedding, options, up) ==
    IF ~initialized
    THEN Answer(o, ready, "not-initialized", << >>, NoVal)
    ELSE IF CollectionAnswers(up)
    THEN Answer(o, ready, "ok", <<"POST search">>,
                [results |->
                    QdrantSearch(points, embedding,
                                 OrDefault(options.limit, DefaultLimit),
                                 OrDefault(options.threshold, DefaultThreshold))])
    ELSE Answer(o, ready, "error", <<"POST search">>, NoVal)

SearchByEmbedding(c, embedding, options, up) ==
    /\ pc[c] = "idle"
    /\ SearchByEmbeddingAnswer("searchByEmbedding", initialized, embedding, options, up)
    /\ UNCHANGED <<embedVars, breakerVars, callVars, frameVars, lastVars, storeVars>>

\* searchSimilarCode checks nothing itself: it generates the embedding first.
SearchSimilarCode(c, query, options) ==
    /\ pc[c] = "idle"
    /\ GenBegin(c, [Method("searchSimilarCode") EXCEPT !.opts = options], query)
    /\ UNCHANGED <<cfgVars, initialized, provVars, storeVars, vlast>>

\* The embedding is there: searchByEmbedding is called, and checks.
SearchSimilarCodeSearch(c, up) ==
    /\ pc[c] = "embedded"
    /\ frame[c].op = "searchSimilarCode"
    /\ IF emb[c].kind = "rejected"
       THEN Answer(frame[c].op, frame[c].ready, "error", << >>, NoVal)
       ELSE SearchByEmbeddingAnswer(frame[c].op, frame[c].ready, emb[c].vec,
                                    frame[c].opts, up)
    /\ Release(c)
    /\ UNCHANGED <<embedVars, breakerVars, lastVars, storeVars>>

(***************************************************************************)
(* getDocument, part_000:440-465, and updateDocument, part_000:381-413.    *)
(***************************************************************************)
\* What getDocument(id) resolves to on an initialized client: the point, or
\* null when the request fails.
GetDocumentResult(id, up) ==
    IF CollectionAnswers(up) /\ points[id] # NoPoint THEN points[id] ELSE NoPoint

\* getDocument without its catch: a failed request rejects the call.
GetDocumentNoCatch(c, id, up) ==
    /\ pc[c] = "idle"
    /\ IF ~initialized
       THEN NotInitialized("getDocument")
       ELSE IF CollectionAnswers(up) /\ points[id] # NoPoint
       THEN Answer("getDocument", TRUE, "ok", <<"GET point">>,
                   [document |-> points[id]])
       ELSE Answer("getDocument", TRUE, "error", <<"GET point">>, NoVal)
    /\ UNCHANGED <<embedVars, breakerVars, callVars, frameVars, lastVars, storeVars>>

GetDocument(c, id, up) ==
    /\ pc[c] = "idle"
    /\ IF ~initialized
       THEN NotInitialized("getDocument")
       ELSE Answer("getDocument", TRUE, "ok", <<"GET point">>,
                   [document |-> GetDocumentResult(id, up)])
    /\ UNCHANGED <<embedVars, breakerVars, callVars, frameVars, lastVars, storeVars>>

UpdateDocument(c, id, updates, up) ==
    /\ pc[c] = "idle"
    /\ IF ~initialized
       THEN /\ NotInitialized("updateDocument")
            /\ UNCHANGED <<pc, frame>>
       ELSE /\ pc' = [pc EXCEPT ![c] = "read"]
            /\ frame' = [frame EXCEPT ![c] =
                            [Method("updateDocument") EXCEPT
                                !.id = id, !.updates = updates,
                                !.existing = GetDocumentResult(id, up),
                                !.sent = <<"GET point">>]]
            /\ UNCHANGED vlast
    /\ UNCHANGED <<text, pending, events, trial, emb, embedVars, breakerVars,
                   lastVars, storeVars>>

\* A variant that merges the updates into the point the store holds at the
\* moment of the write, as an atomic update would.
UpdatedPointAtomic(f, vector) ==
    [id |-> f.id,
     vector |-> vector,
     content |-> IF f.updates.given /\ Truthy(f.updates.str)
                 THEN f.updates.str ELSE points[f.id].content,
     tag |-> IF f.updates.tag # "none" THEN f.updates.tag ELSE points[f.id].tag,
     lastModified |-> points[f.id].lastModified,
     created |-> points[f.id].created,
     updated |-> now]

\* The point updateDocument writes: the content and the tag of the updates
\* where they are given, the existing ones otherwise.
UpdatedPoint(f, vector) ==
    [id |-> f.id,
     vector |-> vector,
     content |-> IF f.updates.given /\ Truthy(f.updates.str)
                 THEN f.updates.str ELSE f.existing.content,
     tag |-> IF f.updates.tag # "none" THEN f.updates.tag ELSE f.existing.tag,
     lastModified |-> f.existing.lastModified,
     created |-> f.existing.created,
     updated |-> now]

UpdateDocumentWrite(c, f, vector, up) ==
    /\ IF CollectionAnswers(up)
       THEN /\ points' = UpsertPoints(points, <<UpdatedPoint(f, vector)>>)
            /\ Answer(f.op, f.ready, "ok", Append(f.sent, "PUT points"), NoVal)
       ELSE /\ Answer(f.op, f.ready, "error", Append(f.sent, "PUT points"), NoVal)
            /\ UNCHANGED points
    /\ Release(c)

\* getDocument has resolved: not found, or re-embed the new content, or write.
UpdateDocumentMerge(c, up) ==
    /\ pc[c] = "read"
    /\ LET f == frame[c]
       IN  IF f.existing = NoPoint
           THEN /\ Answer(f.op, f.ready, "not-found", f.sent, NoVal)
                /\ Release(c)
                /\ UNCHANGED <<points, lastVars, embeddingCache, breakerVars>>
           ELSE IF f.updates.given /\ Truthy(f.updates.str)
           THEN /\ GenBegin(c, f, f.updates.str)
                /\ UNCHANGED <<points, vlast>>
           ELSE /\ UpdateDocumentWrite(c, f, f.existing.vector, up)
                /\ UNCHANGED <<lastVars, embeddingCache, breakerVars>>
    /\ UNCHANGED <<cfgVars, initialized, provVars, collExists>>

UpdateDocumentPut(c, up) ==
    /\ pc[c] = "embedded"
    /\ frame[c].op = "updateDocument"
    /\ IF emb[c].kind = "rejected"
       THEN /\ Answer(frame[c].op, frame[c].ready, "error", frame[c].sent, NoVal)
            /\ Release(c)
            /\ UNCHANGED points
       ELSE UpdateDocumentWrite(c, frame[c], emb[c].vec, up)
    /\ UNCHANGED <<embedVars, breakerVars, lastVars, collExists>>

(***************************************************************************)
(* deleteDocument, part_000:415-423, deleteDocuments, part_000:425-438.    *)
(***************************************************************************)
DeleteDocument(c, id, up) ==
    /\ pc[c] = "idle"
    /\ IF ~initialized
       THEN /\ NotInitialized("deleteDocument")
            /\ UNCHANGED points
       ELSE IF CollectionAnswers(up)
       THEN /\ points' = [points EXCEPT ![id] = NoPoint]
            /\ Answer("deleteDocument", TRUE, "ok", <<"POST delete">>, NoVal)
       ELSE /\ Answer("deleteDocument", TRUE, "error", <<"POST delete">>, NoVal)
            /\ UNCHANGED points
    /\ UNCHANGED <<embedVars, breakerVars, callVars, frameVars, lastVars, collExists>>

\* The number returned is the body's operation_id, or 0; the server's answer
\* carries the operation id under result, so it is 0.
DeleteDocuments(c, filter, up) ==
    /\ pc[c] = "idle"
    /\ IF ~initialized
       THEN /\ NotInitialized("deleteDocuments")
            /\ UNCHANGED points
       ELSE IF CollectionAnswers(up)
       THEN /\ points' = [d \in DocIds |->
                            IF points[d] # NoPoint /\ FilterMatches(filter, points[d])
                            THEN NoPoint ELSE points[d]]
            /\ Answer("deleteDocuments", TRUE, "ok", <<"POST delete">>, [count |-> 0])
       ELSE /\ Answer("deleteDocuments", TRUE, "error", <<"POST delete">>, NoVal)
            /\ UNCHANGED points
    /\ UNCHANGED <<embedVars, breakerVars, callVars, frameVars, lastVars, collExists>>

(***************************************************************************)
(* listDocuments, part_000:467-493, getStats, part_000:495-513,            *)
(* exportData, part_000:549-570.                                           *)
(***************************************************************************)
ListDocuments(c, limit, up) ==
    /\ pc[c] = "idle"
    /\ IF ~initialized
       THEN NotInitialized("listDocuments")
       ELSE IF CollectionAnswers(up)
       THEN Answer("listDocuments", TRUE, "ok", <<"POST scroll">>,
                   [documents |->
                       QdrantScroll(points, OrDefault(limit, DefaultScrollLimit))])
       ELSE Answer("listDocuments", TRUE, "error", <<"POST scroll">>, NoVal)
    /\ UNCHANGED <<embedVars, breakerVars, callVars, frameVars, lastVars, storeVars>>

GetStats(c, up) ==
    /\ pc[c] = "idle"
    /\ IF ~initialized
       THEN NotInitialized("getStats")
       ELSE IF CollectionAnswers(up)
       THEN Answer("getStats", TRUE, "ok", <<"GET collection">>,
                   [documentCount |-> Cardinality(Stored(points))])
       ELSE Answer("getStats", TRUE, "error", <<"GET collection">>, NoVal)
    /\ UNCHANGED <<embedVars, breakerVars, callVars, frameVars, lastVars, storeVars>>

\* exportData calls listDocuments() at once, and getStats() when that has
\* resolved; each of the two checks initialized.
ExportData(c, up) ==
    /\ pc[c] = "idle"
    /\ IF ~initialized
       THEN /\ NotInitialized("exportData")
            /\ UNCHANGED <<pc, frame>>
       ELSE IF CollectionAnswers(up)
       THEN /\ pc' = [pc EXCEPT ![c] = "listed"]
            /\ frame' = [frame EXCEPT ![c] =
                            [Method("exportData") EXCEPT
                                !.built = QdrantScroll(points, DefaultScrollLimit),
                                !.sent = <<"POST scroll">>]]
            /\ UNCHANGED vlast
       ELSE /\ Answer("exportData", TRUE, "error", <<"POST scroll">>, NoVal)
            /\ UNCHANGED <<pc, frame>>
    /\ UNCHANGED <<text, pending, events, trial, emb, embedVars, breakerVars,
                   lastVars, storeVars>>

ExportDataStats(c, up) ==
    /\ pc[c] = "listed"
    /\ LET f == frame[c]
       IN  IF ~initialized
           THEN Answer(f.op, f.ready, "not-initialized", f.sent, NoVal)
           ELSE IF CollectionAnswers(up)
           THEN Answer(f.op, f.ready, "ok", Append(f.sent, "GET collection"),
                       [documents |-> f.built, vectorSize |-> vectorSize,
                        documentCount |-> Cardinality(Stored(points))])
           ELSE Answer(f.op, f.ready, "error", Append(f.sent, "GET collection"), NoVal)
    /\ Release(c)
    /\ UNCHANGED <<embedVars, breakerVars, lastVars, storeVars>>

(***************************************************************************)
(* optimizeIndex, part_000:601-608, deleteCollection, part_000:540-547.    *)
(***************************************************************************)
\* The server may take the request or answer it with an error.
OptimizeIndex(c, accepted, up) ==
    /\ pc[c] = "idle"
    /\ IF ~initialized
       THEN NotInitialized("optimizeIndex")
       ELSE IF CollectionAnswers(up) /\ accepted
       THEN Answer("optimizeIndex", TRUE, "ok", <<"POST index">>, NoVal)
       ELSE Answer("optimizeIndex", TRUE, "error", <<"POST index">>, NoVal)
    /\ UNCHANGED <<embedVars, breakerVars, callVars, frameVars, lastVars, storeVars>>

\* A variant of deleteCollection that leaves the initialized flag as it is.
DeleteCollectionStaysReady(c, up) ==
    /\ pc[c] = "idle"
    /\ IF ~initialized
       THEN /\ NotInitialized("deleteCollection")
            /\ UNCHANGED <<initialized, collExists, points>>
       ELSE IF CollectionAnswers(up)
       THEN /\ collExists' = FALSE
            /\ points' = EmptyCollection
            /\ UNCHANGED initialized
            /\ Answer("deleteCollection", TRUE, "ok", <<"DELETE collection">>, NoVal)
       ELSE /\ Answer("deleteCollection", TRUE, "error", <<"DELETE collection">>, NoVal)
            /\ UNCHANGED <<initialized, collExists, points>>
    /\ UNCHANGED <<cfgVars, provVars, embeddingCache, breakerVars, callVars,
                   frameVars, lastVars>>

DeleteCollection(c, up) ==
    /\ pc[c] = "idle"
    /\ IF ~initialized
       THEN /\ NotInitialized("deleteCollection")
            /\ UNCHANGED <<initialized, collExists, points>>
       ELSE IF CollectionAnswers(up)
       THEN /\ collExists' = FALSE
            /\ points' = EmptyCollection
            /\ initialized' = FALSE
            /\ Answer("deleteCollection", TRUE, "ok", <<"DELETE collection">>, NoVal)
       ELSE /\ Answer("deleteCollection", TRUE, "error", <<"DELETE collection">>, NoVal)
            /\ UNCHANGED <<initialized, collExists, points>>
    /\ UNCHANGED <<cfgVars, provVars, embeddingCache, breakerVars, callVars,
                   frameVars, lastVars>>

(***************************************************************************)
(* initialize, part_000:114-146, with initializeOpenAI, part_000:79-96,    *)
(* initializeLocalEmbeddings, part_000:98-112, and ensureCollection,       *)
(* part_000:515-538; close, part_000:148-152.                              *)
(***************************************************************************)
\* initializeOpenAI: the client is created when a key is there and the openai
\* module loads; otherwise the field is left as it is.
InitializeOpenAI(client, keyGiven, importOk) ==
    IF keyGiven /\ importOk THEN TRUE ELSE client

\* initializeLocalEmbeddings: the pipeline, or null when loading it fails.
InitializeLocalEmbeddings(pipelineOk) == pipelineOk

Range(s) == {s[i] : i \in DOMAIN s}

\* ensureCollection: the requests it sends.  The probe is a GET of the
\* collection; any error of the probe is caught and read as "the collection
\* is not there", and the PUT that creates it follows.  upProbe: whether the
\* server answers the probe.
EnsureCollectionRequests(upProbe) ==
    IF CollectionAnswers(upProbe) THEN <<"GET collection">>
    ELSE <<"GET collection", "PUT collection">>

\* The server creates a collection that is not there; a PUT for one that is
\* there is answered with an error, which makeRequest throws.
CreateAnswers(upCreate) == upCreate /\ ~collExists

\* ensureCollection resolves: no PUT was needed, or the PUT was answered.
EnsureCollectionResolves(upProbe, upCreate) ==
    \/ "PUT collection" \notin Range(EnsureCollectionRequests(upProbe))
    \/ CreateAnswers(upCreate)

\* ensureCollection, part_000:515-538: what it does to the server's state.
EnsureCollection(upProbe, upCreate) ==
    IF /\ "PUT collection" \in Range(EnsureCollectionRequests(upProbe))
       /\ CreateAnswers(upCreate)
    THEN /\ collExists' = TRUE
         /\ points' = EmptyCollection
    ELSE UNCHANGED <<collExists, points>>

\* initialize resolves: the root request and ensureCollection did.
InitializeResolves(up, upProbe, upCreate) ==
    RootAnswers(up) /\ EnsureCollectionResolves(upProbe, upCreate)

\* importOk, pipelineOk: whether the two dynamic imports succeed; up, upProbe,
\* upCreate: whether the server answers the root request, the probe and the
\* PUT.  A request that fails throws, and initialized is left as it was.
Initialize(importOk, pipelineOk, up, upProbe, upCreate) ==
    /\ openaiClient' = InitializeOpenAI(openaiClient, apiKeyGiven, importOk)
    /\ localEmbeddingPipeline' = InitializeLocalEmbeddings(pipelineOk)
    /\ IF RootAnswers(up)
       THEN /\ EnsureCollection(upProbe, upCreate)
            /\ initialized' = IF EnsureCollectionResolves(upProbe, upCreate)
                              THEN TRUE ELSE initialized
       ELSE UNCHANGED <<initialized, collExists, points>>
    /\ UNCHANGED <<cfgVars, embeddingCache, breakerVars, callVars, frameVars,
                   lastVars, vlast>>

Close ==
    /\ initialized' = FALSE
    /\ embeddingCache' = << >>
    /\ lastStanding' = FALSE
    /\ UNCHANGED <<cfgVars, provVars, breakerVars, callVars, frameVars, last,
                   storeVars, vlast>>

(***************************************************************************)
(* isReady, part_000:154-156, and healthCheck, part_000:158-177, of the    *)
(* vector store client.  healthCheck sends two requests; up and upNext     *)
(* tell whether the server answers the first and the second.               *)
(***************************************************************************)
IsReady(c) ==
    /\ pc[c] = "idle"
    /\ Answer("isReady", initialized, "ok", << >>, [ready |-> initialized])
    /\ UNCHANGED <<embedVars, breakerVars, callVars, frameVars, lastVars, storeVars>>

Health(healthy, message) == [healthy |-> healthy, message |-> message]

\* What healthCheck resolves to.  makeRequest throws on a response that is
\* not ok, so every failure ends in the catch.
VecHealth(up, upNext) ==
    IF RootAnswers(up) /\ CollectionAnswers(upNext)
    THEN Health(TRUE, "Qdrant and collection are accessible")
    ELSE Health(FALSE, "Health check failed")

\* healthCheck without its catch: a request that fails rejects the call.
HealthCheckNoCatch(c, up, upNext) ==
    /\ pc[c] = "idle"
    /\ IF RootAnswers(up) /\ CollectionAnswers(upNext)
       THEN Answer("healthCheck", initialized, "ok", <<"GET root", "GET collection">>,
                   VecHealth(up, upNext))
       ELSE Answer("healthCheck", initialized, "error", <<"GET root">>, NoVal)
    /\ UNCHANGED <<embedVars, breakerVars, callVars, frameVars, lastVars, storeVars>>

HealthCheck(c, up, upNext) ==
    /\ pc[c] = "idle"
    /\ Answer("healthCheck", initialized, "ok",
              IF RootAnswers(up) THEN <<"GET root", "GET collection">>
              ELSE <<"GET root">>,
              VecHealth(up, upNext))
    /\ UNCHANGED <<embedVars, breakerVars, callVars, frameVars, lastVars, storeVars>>

(***************************************************************************)
(* PostgreSQLStorage.  The four tables of createSchema                     *)
(* (part_000:1249-1314) have a PRIMARY KEY column each, so a table maps a  *)
(* key to its row, or to NoRow.  Of the other columns a row keeps a text   *)
(* column, val, and a numeric one, score, its created_at instant, created, *)
(* and the instant of its mutation timestamp (updated_at of                *)
(* semantic_concepts, last_seen of developer_patterns), stamp.  An item to *)
(* insert is [key, val, score, valid]: an item that is not valid violates  *)
(* a constraint of the table (a NOT NULL column left null) and its INSERT  *)
(* fails.                                                                  *)
(***************************************************************************)
Kinds == {"semantic_concepts", "developer_patterns", "file_intelligence",
          "ai_insights"}
Keys == {"k1", "k2"}
Vals == {"v1", "v2"}
Scores == {0, 9}

\* The migrations table is not there.
NoLedger == [exists |-> FALSE, versions |-> {}]

NoRow == [val |-> "absent", score |-> 0, created |-> 0, stamp |-> 0]

EmptyTable == [k \in Keys |-> NoRow]

RowCount(table) == Cardinality({k \in Keys : table[k] # NoRow})

Item(key, val, score, valid) ==
    [key |-> key, val |-> val, score |-> score, valid |-> valid]

\* The tables with a mutation timestamp column.
Stamped(kind) == kind \in {"semantic_concepts", "developer_patterns"}

\* The INSERT statements with an ON CONFLICT ... DO UPDATE clause.
OnConflict(kind) ==
    kind \in {"semantic_concepts", "developer_patterns", "file_intelligence"}

\* The row a plain INSERT creates at instant t: created_at and the mutation
\* timestamp take their DEFAULT CURRENT_TIMESTAMP.
InsertedRow(kind, item, t) ==
    [val |-> item.val, score |-> item.score, created |-> t,
     stamp |-> IF Stamped(kind) THEN t ELSE 0]

\* A variant of the conflict clause that leaves the existing row alone.
ConflictRowKeep(kind, old, item, t) == old

\* DO UPDATE SET <every other column> = EXCLUDED.<column>, and the mutation
\* timestamp = CURRENT_TIMESTAMP; created_at is not in the list.
ConflictRow(kind, old, item, t) ==
    [val |-> item.val, score |-> item.score, created |-> old.created,
     stamp |-> IF Stamped(kind) THEN t ELSE 0]

\* INSERT ... ON CONFLICT (key) DO UPDATE SET ...: one row per key, carrying
\* the values inserted last.
Upsert(kind, table, item, t) ==
    [table EXCEPT ![item.key] =
        IF @ = NoRow THEN InsertedRow(kind, item, t)
        ELSE ConflictRow(kind, @, item, t)]

RECURSIVE UpsertAll(_, _, _, _)
UpsertAll(kind, table, items, t) ==
    IF items = << >> THEN table
    ELSE UpsertAll(kind, Upsert(kind, table, Head(items), t), Tail(items), t)

\* The partial record of an update*: a field is "undefined" (Absent for the
\* number) when the caller did not supply it.
NoPartial == [val |-> "undefined", score |-> Absent]

\* A variant of the check that never finds the SET clause empty.
SetClauseEmptyNever(partial) == FALSE

\* setClause.length === 0
SetClauseEmpty(partial) == partial.val = "undefined" /\ partial.score = Absent

\* A variant of the UPDATE that leaves the mutation timestamp alone.
UpdatedRowNoStamp(kind, old, partial, t) ==
    [val |-> IF partial.val # "undefined" THEN partial.val ELSE old.val,
     score |-> IF partial.score # Absent THEN partial.score ELSE old.score,
     created |-> old.created,
     stamp |-> old.stamp]

\* UPDATE <table> SET <the supplied columns>, <mutation timestamp> =
\* CURRENT_TIMESTAMP WHERE <key>.
UpdatedRow(kind, old, partial, t) ==
    [val |-> IF partial.val # "undefined" THEN partial.val ELSE old.val,
     score |-> IF partial.score # Absent THEN partial.score ELSE old.score,
     created |-> old.created,
     stamp |-> IF Stamped(kind) THEN t ELSE old.stamp]

\* pool.query runs the statement on an idle connection of the pool, in a
\* transaction of its own.
PoolHasIdle == checkedOut < poolSize

NoBatch == [op |-> "none", kind |-> "none", items |-> << >>, next |-> 0,
            before |-> EmptyTable]

NoBatchAnswer == [op |-> "none", outcome |-> "none", failedAt |-> 0,
                  unchanged |-> TRUE, present |-> TRUE, queried |-> FALSE,
                  val |-> NoVal]

BatchOp(kind) ==
    IF kind = "semantic_concepts"
    THEN "insertSemanticConceptsBatch" ELSE "insertDeveloperPatternsBatch"

\* The batch insert op settles: what its caller finds when comparing the
\* table with the one it had before the call, and with the items; queried
\* tells whether the call sent a statement to the database.
BatchAnswer(op, outcome, failedAt, items, before, after, queried) ==
    [op |-> op, outcome |-> outcome, failedAt |-> failedAt,
     unchanged |-> (after = before),
     present |-> \A i \in 1..Len(items) : after[items[i].key] # NoRow,
     queried |-> queried,
     val |-> NoVal]

\* A method on one record settles.
RecordAnswer(op, outcome, before, after, queried) ==
    BatchAnswer(op, outcome, 0, << >>, before, after, queried)

\* A method that reads settles: what it resolves to is val, a record with one
\* field named after it, as for the vector store client.
ReadAnswer(op, outcome, queried, val) ==
    [op |-> op, outcome |-> outcome, failedAt |-> 0, unchanged |-> TRUE,
     present |-> TRUE, queried |-> queried, val |-> val]

InsertOp(kind) ==
    CASE kind = "semantic_concepts" -> "insertSemanticConcept"
      [] kind = "developer_patterns" -> "insertDeveloperPattern"
      [] kind = "file_intelligence" -> "insertFileIntelligence"
      [] kind = "ai_insights" -> "insertAIInsight"

UpdateOp(kind) ==
    CASE kind = "semantic_concepts" -> "updateSemanticConcept"
      [] kind = "developer_patterns" -> "updateDeveloperPattern"
      [] kind = "file_intelligence" -> "updateFileIntelligence"
      [] kind = "ai_insights" -> "updateAIInsight"

DeleteOp(kind) ==
    CASE kind = "semantic_concepts" -> "deleteSemanticConcept"
      [] kind = "developer_patterns" -> "deleteDeveloperPattern"
      [] kind = "file_intelligence" -> "deleteFileIntelligence"
      [] kind = "ai_insights" -> "deleteAIInsight"

\* initialize, part_000:677-705: a new pool is created, a connection is
\* taken from it, the test query runs on it and the connection is released.
\* connects tells whether the database hands out the connection, queryOk
\* whether the test query succeeds; the release follows the query and is in
\* no finally block, so a failing query leaves the connection checked out.
RelInitialize(connects, queryOk) ==
    /\ \A c \in RelCallers : rpc[c] = "idle"
    /\ pool' = "open"
    /\ relInitialized' = (relInitialized \/ (connects /\ queryOk))
    /\ checkedOut' = IF connects /\ ~queryOk THEN 1 ELSE 0
    /\ UNCHANGED <<poolSize, rows, txWrites, rpc, rframe, rlast,
                   dbVars, vecVars, now>>

\* close, part_000:707-714; pool.end() waits for the connections handed out.
RelClose ==
    /\ \A c \in RelCallers : rpc[c] = "idle"
    /\ checkedOut = 0
    /\ pool' = "null"
    /\ relInitialized' = FALSE
    /\ UNCHANGED <<poolSize, checkedOut, rows, txWrites, rpc, rframe, rlast,
                   dbVars, vecVars, now>>

\* The clock goes on.
TimePasses ==
    /\ now < MaxNow
    /\ now' = now + 1
    /\ UNCHANGED <<vecVars, relVars>>

\* The INSERT of an insert* method fails: the table is not there, the item
\* violates a constraint, or its key is there and the statement has no
\* conflict clause.
InsertFails(kind, table, item) ==
    ~schema \/ ~item.valid \/ (~OnConflict(kind) /\ table[item.key] # NoRow)

\* The insert* methods (part_000:741-768, 847-872, 946-970, 1036-1053),
\* called on their own, between batch inserts: one pool.query, which throws
\* at once when the pool is null.
InsertOne(kind, item) ==
    /\ \A c \in RelCallers : rpc[c] = "idle"
    /\ IF pool = "null"
       THEN /\ rlast' = RecordAnswer(InsertOp(kind), "rejected", rows[kind],
                                     rows[kind], FALSE)
            /\ UNCHANGED rows
       ELSE /\ PoolHasIdle
            /\ IF InsertFails(kind, rows[kind], item)
               THEN /\ rlast' = RecordAnswer(InsertOp(kind), "rejected", rows[kind],
                                             rows[kind], TRUE)
                    /\ UNCHANGED rows
               ELSE /\ rows' = [rows EXCEPT ![kind] = Upsert(kind, @, item, now)]
                    /\ rlast' = RecordAnswer(InsertOp(kind), "ok", rows[kind],
                                             Upsert(kind, rows[kind], item, now),
                                             TRUE)
    /\ UNCHANGED <<poolVars, txWrites, rpc, rframe, dbVars, vecVars, now>>

InsertSemanticConcept(item) == InsertOne("semantic_concepts", item)
InsertDeveloperPattern(item) == InsertOne("developer_patterns", item)
InsertFileIntelligence(item) == InsertOne("file_intelligence", item)
InsertAIInsight(item) == InsertOne("ai_insights", item)

\* The update* methods (part_000:797-840, 900-939, 992-1029, 1080-1117):
\* nothing to set is a return without a query; otherwise one UPDATE, of the
\* row with the key if there is one.
UpdateOne(kind, key, partial) ==
    /\ \A c \in RelCallers : rpc[c] = "idle"
    /\ IF SetClauseEmpty(partial)
       THEN /\ rlast' = RecordAnswer(UpdateOp(kind), "ok", rows[kind], rows[kind],
                                     FALSE)
            /\ UNCHANGED rows
       ELSE IF pool = "null"
       THEN /\ rlast' = RecordAnswer(UpdateOp(kind), "rejected", rows[kind],
                                     rows[kind], FALSE)
            /\ UNCHANGED rows
       ELSE IF ~schema
       THEN /\ PoolHasIdle
            /\ rlast' = RecordAnswer(UpdateOp(kind), "rejected", rows[kind],
                                     rows[kind], TRUE)
            /\ UNCHANGED rows
       ELSE /\ PoolHasIdle
            /\ LET table == IF rows[kind][key] = NoRow THEN rows[kind]
                            ELSE [rows[kind] EXCEPT
                                     ![key] = UpdatedRow(kind, @, partial, now)]
               IN  /\ rows' = [rows EXCEPT ![kind] = table]
                   /\ rlast' = RecordAnswer(UpdateOp(kind), "ok", rows[kind], table,
                                            TRUE)
    /\ UNCHANGED <<poolVars, txWrites, rpc, rframe, dbVars, vecVars, now>>

UpdateSemanticConcept(id, updates) == UpdateOne("semantic_concepts", id, updates)
UpdateDeveloperPattern(id, updates) == UpdateOne("developer_patterns", id, updates)
UpdateFileIntelligence(id, updates) == UpdateOne("file_intelligence", id, updates)
UpdateAIInsight(id, updates) == UpdateOne("ai_insights", id, updates)

\* A variant of the delete* methods whose DELETE has no WHERE clause.
DeleteOneNoWhere(kind, key) ==
    /\ \A c \in RelCallers : rpc[c] = "idle"
    /\ IF pool = "null"
       THEN /\ rlast' = RecordAnswer(DeleteOp(kind), "rejected", rows[kind],
                                     rows[kind], FALSE)
            /\ UNCHANGED rows
       ELSE IF ~schema
       THEN /\ PoolHasIdle
            /\ rlast' = RecordAnswer(DeleteOp(kind), "rejected", rows[kind],
                                     rows[kind], TRUE)
            /\ UNCHANGED rows
       ELSE /\ PoolHasIdle
            /\ rows' = [rows EXCEPT ![kind] = EmptyTable]
            /\ rlast' = RecordAnswer(DeleteOp(kind), "ok", rows[kind], EmptyTable,
                                     TRUE)
    /\ UNCHANGED <<poolVars, txWrites, rpc, rframe, dbVars, vecVars, now>>

\* The delete* methods (part_000:842-844, 941-943, 1031-1033, 1119-1121).
DeleteOne(kind, key) ==
    /\ \A c \in RelCallers : rpc[c] = "idle"
    /\ IF pool = "null"
       THEN /\ rlast' = RecordAnswer(DeleteOp(kind), "rejected", rows[kind],
                                     rows[kind], FALSE)
            /\ UNCHANGED rows
       ELSE IF ~schema
       THEN /\ PoolHasIdle
            /\ rlast' = RecordAnswer(DeleteOp(kind), "rejected", rows[kind],
                                     rows[kind], TRUE)
            /\ UNCHANGED rows
       ELSE /\ PoolHasIdle
            /\ rows' = [rows EXCEPT ![kind][key] = NoRow]
            /\ rlast' = RecordAnswer(DeleteOp(kind), "ok", rows[kind],
                                     [rows[kind] EXCEPT ![key] = NoRow], TRUE)
    /\ UNCHANGED <<poolVars, txWrites, rpc, rframe, dbVars, vecVars, now>>

DeleteSemanticConcept(id) == DeleteOne("semantic_concepts", id)
DeleteDeveloperPattern(id) == DeleteOne("developer_patterns", id)
DeleteFileIntelligence(id) == DeleteOne("file_intelligence", id)
DeleteAIInsight(id) == DeleteOne("ai_insights", id)

\* What getFileIntelligence (part_000:972-990) resolves to on this table:
\* the row with the path, or null (NoRow) when the SELECT returns no row.
GetFileIntelligenceResult(table, filePath) == table[filePath]

\* The kinds with a list getter: getSemanticConcepts (part_000:770-795),
\* getDeveloperPatterns (874-898) and getAIInsights (1055-1078).
ListKinds == {"semantic_concepts", "developer_patterns", "ai_insights"}

ListOp(kind) ==
    CASE kind = "semantic_concepts" -> "getSemanticConcepts"
      [] kind = "developer_patterns" -> "getDeveloperPatterns"
      [] kind = "ai_insights" -> "getAIInsights"

\* if (filePath): the WHERE clause is added for a filter that is truthy.
FilterGiven(filter) == filter # "undefined" /\ filter # ""

\* The keys of the rows the SELECT returns.
Selected(table, filter) ==
    {k \in Keys : /\ table[k] # NoRow
                  /\ FilterGiven(filter) => table[k].val = filter}

\* ORDER BY: row a may come before row b.  Semantic concepts and insights
\* are ordered by created_at DESC, developer patterns by frequency DESC,
\* last_seen DESC.
OrderedBefore(kind, a, b) ==
    IF kind = "developer_patterns"
    THEN a.score > b.score \/ (a.score = b.score /\ a.stamp >= b.stamp)
    ELSE a.created >= b.created

\* The orders in which the database may return the rows with these keys:
\* rows that the ORDER BY does not tell apart come in any order.
Orderings(kind, table, keys) ==
    {s \in [1..Cardinality(keys) -> keys] :
        /\ \A i, j \in 1..Cardinality(keys) : s[i] = s[j] => i = j
        /\ \A i, j \in 1..Cardinality(keys) :
              i < j => OrderedBefore(kind, table[s[i]], table[s[j]])}

\* The list getters: one pool.query, which throws at once when the pool is
\* null and fails when the table is not there; result is the order the
\* database returned the rows in.
GetList(kind, filter, result) ==
    /\ \A c \in RelCallers : rpc[c] = "idle"
    /\ IF pool = "null"
       THEN rlast' = ReadAnswer(ListOp(kind), "rejected", FALSE, NoVal)
       ELSE IF ~schema
       THEN /\ PoolHasIdle
            /\ rlast' = ReadAnswer(ListOp(kind), "rejected", TRUE, NoVal)
       ELSE /\ PoolHasIdle
            /\ result \in Orderings(kind, rows[kind], Selected(rows[kind], filter))
            /\ rlast' = ReadAnswer(ListOp(kind), "ok", TRUE, [keys |-> result])
    /\ UNCHANGED <<poolVars, rows, txWrites, rpc, rframe, dbVars, vecVars, now>>

GetSemanticConcepts(filePath, result) == GetList("semantic_concepts", filePath, result)
GetDeveloperPatterns(patternType, result) ==
    GetList("developer_patterns", patternType, result)
GetAIInsights(insightType, result) == GetList("ai_insights", insightType, result)

(***************************************************************************)
(* runMigrations, part_000:1165-1179, with createSchema, part_000:1249-    *)
(* 1314, and getCurrentSchemaVersion, part_000:1181-1188.  Whether the     *)
(* database answers a statement is an input of the step that sends it.     *)
(***************************************************************************)
\* Versions another tool may record in the migrations table; the client
\* itself writes none.
Versions == {0, 1, 2}

\* Where runMigrations may fail: nowhere, at CREATE TABLE migrations, or in
\* createSchema (in which case the four tables are not all there).
MigrationFailures == {"none", "ledger", "schema"}

\* CREATE TABLE IF NOT EXISTS migrations, then the statements of
\* createSchema, all of them IF NOT EXISTS: rows are never touched.
RunMigrations(fails) ==
    /\ \A c \in RelCallers : rpc[c] = "idle"
    /\ IF pool = "null"
       THEN /\ rlast' = RecordAnswer("runMigrations", "rejected", rows, rows, FALSE)
            /\ UNCHANGED dbVars
       ELSE /\ PoolHasIdle
            /\ IF fails = "ledger"
               THEN /\ rlast' = RecordAnswer("runMigrations", "rejected", rows, rows,
                                             TRUE)
                    /\ UNCHANGED dbVars
               ELSE /\ ledger' = [ledger EXCEPT !.exists = TRUE]
                    /\ IF fails = "schema"
                       THEN /\ rlast' = RecordAnswer("runMigrations", "rejected",
                                                     rows, rows, TRUE)
                            /\ UNCHANGED schema
                       ELSE /\ rlast' = RecordAnswer("runMigrations", "ok", rows,
                                                     rows, TRUE)
                            /\ schema' = TRUE
    /\ UNCHANGED <<poolVars, rows, txWrites, rpc, rframe, vecVars, now>>

\* Another tool records a version in the migrations table.
LedgerRecords(v) ==
    /\ ledger.exists
    /\ v \notin ledger.versions
    /\ ledger' = [ledger EXCEPT !.versions = @ \cup {v}]
    /\ UNCHANGED <<poolVars, schema, rows, txWrites, rpc, rframe, rlast, vecVars, now>>

\* SELECT MAX(version): NULL for a table without rows.
MaxVersion(versions) ==
    IF versions = {} THEN Absent
    ELSE CHOOSE v \in versions : \A w \in versions : w <= v

\* getCurrentSchemaVersion without its catch: a failed read rejects the call.
GetCurrentSchemaVersionNoCatch(dbUp) ==
    /\ \A c \in RelCallers : rpc[c] = "idle"
    /\ IF pool = "null"
       THEN rlast' = ReadAnswer("getCurrentSchemaVersion", "rejected", FALSE, NoVal)
       ELSE /\ PoolHasIdle
            /\ IF dbUp /\ ledger.exists
               THEN rlast' = ReadAnswer("getCurrentSchemaVersion", "ok", TRUE,
                         [version |-> OrDefault(MaxVersion(ledger.versions), 0)])
               ELSE rlast' = ReadAnswer("getCurrentSchemaVersion", "rejected", TRUE,
                                        NoVal)
    /\ UNCHANGED <<poolVars, dbVars, rows, txWrites, rpc, rframe, vecVars, now>>

\* this.pool!.query inside the try: a null pool, an unreachable database and
\* a missing table all end in the catch, which returns 0;
\* rows[0]?.version || 0 otherwise.
GetCurrentSchemaVersion(dbUp) ==
    /\ \A c \in RelCallers : rpc[c] = "idle"
    /\ IF pool = "null"
       THEN rlast' = ReadAnswer("getCurrentSchemaVersion", "ok", FALSE,
                                [version |-> 0])
       ELSE /\ PoolHasIdle
            /\ IF dbUp /\ ledger.exists
               THEN rlast' = ReadAnswer("getCurrentSchemaVersion", "ok", TRUE,
                         [version |-> OrDefault(MaxVersion(ledger.versions), 0)])
               ELSE rlast' = ReadAnswer("getCurrentSchemaVersion", "ok", TRUE,
                                        [version |-> 0])
    /\ UNCHANGED <<poolVars, dbVars, rows, txWrites, rpc, rframe, vecVars, now>>

(***************************************************************************)
(* isReady, part_000:716-718, and healthCheck, part_000:720-738, of the    *)
(* relational client.                                                      *)
(***************************************************************************)
RelIsReady ==
    /\ rlast' = ReadAnswer("isReady", "ok", FALSE,
                           [ready |-> relInitialized /\ pool # "null"])
    /\ UNCHANGED <<poolVars, dbVars, rows, txWrites, rpc, rframe, vecVars, now>>

\* What healthCheck resolves to: SELECT 1 answers when the database is up.
RelHealth(dbUp) ==
    IF pool = "null" THEN Health(FALSE, "No connection pool available")
    ELSE IF dbUp THEN Health(TRUE, "PostgreSQL connection healthy")
    ELSE Health(FALSE, "Health check failed")

RelHealthCheck(dbUp) ==
    /\ \A c \in RelCallers : rpc[c] = "idle"
    /\ pool # "null" => PoolHasIdle
    /\ rlast' = ReadAnswer("healthCheck", "ok", pool # "null", RelHealth(dbUp))
    /\ UNCHANGED <<poolVars, dbVars, rows, txWrites, rpc, rframe, vecVars, now>>

\* insertSemanticConceptsBatch, part_000:1124-1142, and
\* insertDeveloperPatternsBatch, part_000:1144-1162, up to pool.connect().
InsertBatch(c, kind, items) ==
    /\ rpc[c] = "idle"
    /\ IF items = << >>
       THEN /\ rlast' = BatchAnswer(BatchOp(kind), "ok", 0, items,
                                    rows[kind], rows[kind], FALSE)
            /\ UNCHANGED <<rpc, rframe>>
       ELSE IF pool = "null"
       THEN /\ rlast' = BatchAnswer(BatchOp(kind), "rejected", 0, items,
                                    rows[kind], rows[kind], FALSE)
            /\ UNCHANGED <<rpc, rframe>>
       ELSE /\ rpc' = [rpc EXCEPT ![c] = "connect"]
            /\ rframe' = [rframe EXCEPT ![c] =
                             [op |-> BatchOp(kind), kind |-> kind, items |-> items,
                              next |-> 1, before |-> rows[kind]]]
            /\ UNCHANGED rlast
    /\ UNCHANGED <<poolVars, rows, txWrites, dbVars, vecVars, now>>

InsertSemanticConceptsBatch(c, concepts) == InsertBatch(c, "semantic_concepts", concepts)
InsertDeveloperPatternsBatch(c, patterns) == InsertBatch(c, "developer_patterns", patterns)

\* pool.connect() hands out a connection, and BEGIN opens a transaction on it.
BatchBegin(c) ==
    /\ rpc[c] = "connect"
    /\ PoolHasIdle
    /\ checkedOut' = checkedOut + 1
    /\ txWrites' = [txWrites EXCEPT ![c] = << >>]
    /\ rpc' = [rpc EXCEPT ![c] = "loop"]
    /\ UNCHANGED <<relInitialized, pool, poolSize, rows, rframe, rlast, dbVars, vecVars, now>>

\* The pool has no idle connection for pool.connect(): the call waits, and
\* the pool rejects it when connectionTimeoutMillis is over.  No connection
\* was handed out, and the try block was not entered.
BatchConnectTimeout(c) ==
    /\ rpc[c] = "connect"
    /\ ~PoolHasIdle
    /\ rlast' = BatchAnswer(rframe[c].op, "rejected", 0, rframe[c].items,
                            rframe[c].before, rows[rframe[c].kind], TRUE)
    /\ rpc' = [rpc EXCEPT ![c] = "idle"]
    /\ rframe' = [rframe EXCEPT ![c] = NoBatch]
    /\ UNCHANGED <<poolVars, rows, txWrites, dbVars, vecVars, now>>

\* One turn of the loop: await this.insertSemanticConcept(concept), a
\* pool.query of its own, which needs an idle connection of the pool and is
\* committed as it completes.  A failing item leaves the loop for the catch
\* block.
BatchInsert(c) ==
    /\ rpc[c] = "loop"
    /\ rframe[c].next <= Len(rframe[c].items)
    /\ PoolHasIdle
    /\ LET f == rframe[c]
           item == f.items[f.next]
       IN  IF ~InsertFails(f.kind, rows[f.kind], item)
           THEN /\ rows' = [rows EXCEPT ![f.kind] = Upsert(f.kind, @, item, now)]
                /\ rframe' = [rframe EXCEPT ![c] = [f EXCEPT !.next = f.next + 1]]
                /\ UNCHANGED rpc
           ELSE /\ rpc' = [rpc EXCEPT ![c] = "catch"]
                /\ UNCHANGED <<rows, rframe>>
    /\ UNCHANGED <<poolVars, txWrites, rlast, dbVars, vecVars, now>>

\* The pool has no idle connection for the pool.query of the turn: the query
\* waits, and the pool, configured with connectionTimeoutMillis:
\* config.timeout || 30000 (part_000:689), rejects it when that time is over.
BatchInsertTimeout(c) ==
    /\ rpc[c] = "loop"
    /\ rframe[c].next <= Len(rframe[c].items)
    /\ ~PoolHasIdle
    /\ rpc' = [rpc EXCEPT ![c] = "catch"]
    /\ UNCHANGED <<poolVars, rows, rframe, txWrites, rlast, dbVars, vecVars, now>>

\* The call settles, in the finally block the connection is released.
BatchSettle(c, outcome, failedAt, table) ==
    /\ rlast' = BatchAnswer(rframe[c].op, outcome, failedAt, rframe[c].items,
                            rframe[c].before, table, TRUE)
    /\ rpc' = [rpc EXCEPT ![c] = "idle"]
    /\ rframe' = [rframe EXCEPT ![c] = NoBatch]
    /\ txWrites' = [txWrites EXCEPT ![c] = << >>]
    /\ checkedOut' = checkedOut - 1

\* The loop is done: COMMIT makes what was written on the connection since
\* BEGIN part of the table.
BatchCommit(c) ==
    /\ rpc[c] = "loop"
    /\ rframe[c].next > Len(rframe[c].items)
    /\ LET table == UpsertAll(rframe[c].kind, rows[rframe[c].kind], txWrites[c], now)
       IN  /\ rows' = [rows EXCEPT ![rframe[c].kind] = table]
           /\ BatchSettle(c, "ok", 0, table)
    /\ UNCHANGED <<relInitialized, pool, poolSize, dbVars, vecVars, now>>

\* The catch block: ROLLBACK drops what was written on the connection since
\* BEGIN, and the error is thrown on.
BatchRollback(c) ==
    /\ rpc[c] = "catch"
    /\ BatchSettle(c, "rejected", rframe[c].next, rows[rframe[c].kind])
    /\ UNCHANGED <<relInitialized, pool, poolSize, rows, dbVars, vecVars, now>>

(***************************************************************************)
(* StorageProvider.healthCheck.  The class is not among the sources; only  *)
(* its interface is (IStorageProvider.ts:31-43, 84).  It is modelled from  *)
(* section 4.6 of the specification: both clients are probed, each result  *)
(* is reported on its own, and overall is their conjunction.               *)
(***************************************************************************)
\* A variant whose overall flag is set when either backend is healthy.
ProviderHealthEither(dbUp, up, upNext) ==
    [relational |-> RelHealth(dbUp),
     vector |-> VecHealth(up, upNext),
     overall |-> RelHealth(dbUp).healthy \/ VecHealth(up, upNext).healthy]

ProviderHealth(dbUp, up, upNext) ==
    [relational |-> RelHealth(dbUp),
     vector |-> VecHealth(up, upNext),
     overall |-> RelHealth(dbUp).healthy /\ VecHealth(up, upNext).healthy]

\* The provider's answer is kept where the vector store client's answers are.
ProviderHealthCheck(c, dbUp, up, upNext) ==
    /\ pc[c] = "idle"
    /\ \A r \in RelCallers : rpc[r] = "idle"
    /\ pool # "null" => PoolHasIdle
    /\ Answer("StorageProvider.healthCheck", initialized, "ok", << >>,
              ProviderHealth(dbUp, up, upNext))
    /\ UNCHANGED <<embedVars, breakerVars, callVars, frameVars, lastVars, storeVars,
                   relVars, now>>

(***************************************************************************)
(* Initial states: the two clients as their constructors leave them        *)
(* (part_000:68-77 and part_000:673-675), the vector store's               *)
(* collection not there yet, the tables empty.                             *)
(***************************************************************************)
\* The keys of a configuration: absent, or one of three distinct secrets.
NoKey == "none"

\* A StorageConfig (part_002:12-25) and process.env.OPENAI_API_KEY.
StorageConfig(qdrantKey, openaiKey, envKey) ==
    [fromFactory |-> TRUE, qdrantKey |-> qdrantKey, openaiKey |-> openaiKey,
     envKey |-> envKey]

\* A client constructed directly, without an apiKey; the environment may
\* hold a key for the embedding provider.
DirectConfig(envKeyGiven) ==
    [fromFactory |-> FALSE, qdrantKey |-> NoKey, openaiKey |-> NoKey,
     envKey |-> IF envKeyGiven THEN "env-key" ELSE NoKey]

\* createVectorStorage, part_002:30-75: the apiKey of the VectorStorageConfig
\* it passes to the constructor is config.openaiApiKey; config.qdrant.apiKey
\* is not read.  A client constructed directly has no apiKey here.
CreateVectorStorage(config) ==
    [apiKey |-> IF config.fromFactory THEN config.openaiKey ELSE NoKey]

\* const openaiApiKey = this.apiKey || process.env.OPENAI_API_KEY
OpenAIApiKey(key, envKey) == IF key # NoKey THEN key ELSE envKey

\* makeRequest: if (this.apiKey) headers['api-key'] = this.apiKey; NoKey
\* stands for a request without the header.
ApiKeyHeader(key) == IF key # NoKey THEN key ELSE NoKey

InitClient(sizes, configs) ==
    /\ vectorSize \in sizes
    /\ storageConfig \in configs
    /\ apiKey = CreateVectorStorage(storageConfig).apiKey
    /\ apiKeyGiven = (OpenAIApiKey(apiKey, storageConfig.envKey) # NoKey)
    /\ initialized = FALSE
    /\ openaiClient = FALSE
    /\ localEmbeddingPipeline = FALSE
    /\ embeddingCache = << >>
    /\ brState = "closed"
    /\ brFailures = 0
    /\ brSince = 0
    /\ consecFails = 0
    /\ pc = [c \in Callers |-> "idle"]
    /\ text = [c \in Callers |-> << >>]
    /\ pending = [c \in Callers |-> NoVec]
    /\ events = [c \in Callers |-> {}]
    /\ trial = [c \in Callers |-> FALSE]
    /\ frame = [c \in Callers |-> NoFrame]
    /\ emb = [c \in Callers |-> NoRet]
    /\ last = NoCall
    /\ lastStanding = FALSE
    /\ collExists = FALSE
    /\ points = EmptyCollection
    /\ vlast = NoAnswer
    /\ now = 0

\* The client constructed directly, keys telling whether the environment
\* holds a key for the embedding provider.
InitVector(sizes, keys) == InitClient(sizes, {DirectConfig(k) : k \in keys})

InitRelational(sizes, schemas) ==
    /\ relInitialized = FALSE
    /\ pool = "null"
    /\ poolSize \in sizes
    /\ checkedOut = 0
    /\ schema \in schemas
    /\ ledger = NoLedger
    /\ rows = [k \in Kinds |-> EmptyTable]
    /\ txWrites = [c \in RelCallers |-> << >>]
    /\ rpc = [c \in RelCallers |-> "idle"]
    /\ rframe = [c \in RelCallers |-> NoBatch]
    /\ rlast = NoBatchAnswer

(***************************************************************************)
(* The embedding generator on its own: calls of generateEmbedding from     *)
(* several callers, close() at any moment, initialize() when no call is in *)
(* flight (a call reads the providers before its first await only).        *)
(***************************************************************************)
InitEmbed == InitVector(VectorSizes, BOOLEAN) /\ InitRelational({2}, {TRUE})

NextEmbed ==
    \/ \E c \in Callers, t \in Texts : GenerateEmbedding(c, t) /\ UNCHANGED <<relVars, now>>
    \/ \E c \in Callers : RemoteOk(c) /\ UNCHANGED <<relVars, now>>
    \/ \E c \in Callers : RemoteFail(c) /\ UNCHANGED <<relVars, now>>
    \/ \E c \in Callers, ok \in BOOLEAN : LocalReturn(c, ok) /\ UNCHANGED <<relVars, now>>
    \/ \E c \in Callers : GenInsert(c) /\ UNCHANGED <<relVars, now>>
    \/ Tick /\ UNCHANGED <<relVars, now>>
    \/ \E importOk, pipelineOk, up \in BOOLEAN :
          /\ \A c \in Callers : pc[c] = "idle"
          /\ Initialize(importOk, pipelineOk, up, up, up)
          /\ UNCHANGED <<relVars, now>>
    \/ Close /\ UNCHANGED <<relVars, now>>

SpecEmbed == InitEmbed /\ [][NextEmbed]_vars

(***************************************************************************)
(* The vector store client without an API key and with the local model     *)
(* installed (embeddings are hash-based until initialize() has loaded the  *)
(* model): its methods, one call at a time, with initialize() and close()  *)
(* at any moment.                                                          *)
(***************************************************************************)
VecTexts == {<<97>>}

SearchOptionsSet ==
    {NoOptions, [limit |-> 1, threshold |-> 100], [limit |-> 0, threshold |-> 50],
     [limit |-> 2, threshold |-> 0]}

UpdatesSet ==
    {NoUpdates,
     [given |-> TRUE, str |-> <<97, 98>>, tag |-> "none"],
     [given |-> TRUE, str |-> << >>, tag |-> "t1"]}

QueryVectors == {generateFallbackEmbedding(<<97>>)}

ChunkLists == {<< >>, <<(<<97>>)>>, <<(<<97>>), (<<97>>)>>}

MetadataLists ==
    {<< >>, <<[id |-> "d1", tag |-> "t0"]>>,
     <<[id |-> "d1", tag |-> "t0"], [id |-> "d2", tag |-> "t0"]>>}

Document(id) ==
    [id |-> id, vector |-> generateFallbackEmbedding(<<97>>), content |-> <<97>>,
     tag |-> "t0", lastModified |-> "Date", created |-> 0, updated |-> 0]

DocumentLists == {<< >>, <<Document("d2")>>, <<Document("d1"), Document("d2")>>}

InitVec == InitVector({LOCAL_EMBEDDING_DIMENSION}, {FALSE}) /\ InitRelational({2}, {TRUE})

NextVec ==
    \/ \E c \in VecCallers, t \in VecTexts, d \in DocIds :
          StoreCodeEmbedding(c, t, d, "t0") /\ UNCHANGED <<relVars, now>>
    \/ \E c \in VecCallers, up \in BOOLEAN :
          StoreCodeEmbeddingPut(c, up) /\ UNCHANGED <<relVars, now>>
    \/ \E c \in VecCallers, chunks \in ChunkLists, metas \in MetadataLists :
          StoreMultipleEmbeddings(c, chunks, metas) /\ UNCHANGED <<relVars, now>>
    \/ \E c \in VecCallers : StoreMultipleEmbeddingsNext(c) /\ UNCHANGED <<relVars, now>>
    \/ \E c \in VecCallers, docs \in DocumentLists :
          ImportData(c, docs) /\ UNCHANGED <<relVars, now>>
    \/ \E c \in VecCallers, up \in BOOLEAN : UpsertBatch(c, up) /\ UNCHANGED <<relVars, now>>
    \/ \E c \in VecCallers, v \in QueryVectors, o \in SearchOptionsSet, up \in BOOLEAN :
          SearchByEmbedding(c, v, o, up) /\ UNCHANGED <<relVars, now>>
    \/ \E c \in VecCallers, t \in VecTexts, o \in SearchOptionsSet :
          SearchSimilarCode(c, t, o) /\ UNCHANGED <<relVars, now>>
    \/ \E c \in VecCallers, up \in BOOLEAN :
          SearchSimilarCodeSearch(c, up) /\ UNCHANGED <<relVars, now>>
    \/ \E c \in VecCallers, d \in DocIds, up \in BOOLEAN :
          GetDocument(c, d, up) /\ UNCHANGED <<relVars, now>>
    \/ \E c \in VecCallers, d \in DocIds, u \in UpdatesSet, up \in BOOLEAN :
          UpdateDocument(c, d, u, up) /\ UNCHANGED <<relVars, now>>
    \/ \E c \in VecCallers, up \in BOOLEAN :
          UpdateDocumentMerge(c, up) /\ UNCHANGED <<relVars, now>>
    \/ \E c \in VecCallers, up \in BOOLEAN :
          UpdateDocumentPut(c, up) /\ UNCHANGED <<relVars, now>>
    \/ \E c \in VecCallers, d \in DocIds, up \in BOOLEAN :
          DeleteDocument(c, d, up) /\ UNCHANGED <<relVars, now>>
    \/ \E c \in VecCallers, f \in {"all", "t1"}, up \in BOOLEAN :
          DeleteDocuments(c, f, up) /\ UNCHANGED <<relVars, now>>
    \/ \E c \in VecCallers, n \in {Absent, 1}, up \in BOOLEAN :
          ListDocuments(c, n, up) /\ UNCHANGED <<relVars, now>>
    \/ \E c \in VecCallers, up \in BOOLEAN : GetStats(c, up) /\ UNCHANGED <<relVars, now>>
    \/ \E c \in VecCallers, up \in BOOLEAN : ExportData(c, up) /\ UNCHANGED <<relVars, now>>
    \/ \E c \in VecCallers, up \in BOOLEAN :
          ExportDataStats(c, up) /\ UNCHANGED <<relVars, now>>
    \/ \E c \in VecCallers, up, accepted \in BOOLEAN :
          OptimizeIndex(c, accepted, up) /\ UNCHANGED <<relVars, now>>
    \/ \E c \in VecCallers, up \in BOOLEAN :
          DeleteCollection(c, up) /\ UNCHANGED <<relVars, now>>
    \/ \E c \in VecCallers : LocalReturn(c, TRUE) /\ UNCHANGED <<relVars, now>>
    \/ \E c \in VecCallers : GenInsert(c) /\ UNCHANGED <<relVars, now>>
    \/ \E up, upProbe, upCreate \in BOOLEAN :
          Initialize(FALSE, TRUE, up, upProbe, upCreate) /\ UNCHANGED <<relVars, now>>
    \/ Close /\ UNCHANGED <<relVars, now>>

SpecVec == InitVec /\ [][NextVec]_vars

(***************************************************************************)
(* The relational client: single inserts and batch inserts on a pool.      *)
(***************************************************************************)
MaxBatch == 3

SingleItems == {Item(k, v, 0, TRUE) : k \in Keys, v \in Vals}

BatchItems == {Item(k, "v1", 0, TRUE) : k \in Keys} \cup {Item("k2", "v1", 0, FALSE)}

Batches == UNION {[1..n -> BatchItems] : n \in 0..MaxBatch}

InitRel == InitVector({EMBEDDING_DIMENSION}, {FALSE}) /\ InitRelational(PoolSizes, {TRUE})

NextRel ==
    \/ \E connects \in BOOLEAN : RelInitialize(connects, TRUE)
    \/ RelClose
    \/ \E item \in SingleItems : InsertSemanticConcept(item)
    \/ \E item \in SingleItems : InsertDeveloperPattern(item)
    \/ \E c \in RelCallers, items \in Batches : InsertSemanticConceptsBatch(c, items)
    \/ \E c \in RelCallers, items \in Batches : InsertDeveloperPatternsBatch(c, items)
    \/ \E c \in RelCallers : BatchBegin(c)
    \/ \E c \in RelCallers : BatchInsert(c)
    \/ \E c \in RelCallers : BatchInsertTimeout(c)
    \/ \E c \in RelCallers : BatchCommit(c)
    \/ \E c \in RelCallers : BatchRollback(c)

SpecRel == InitRel /\ [][NextRel]_vars

(***************************************************************************)
(* The pool under load: batch inserts of items the database accepts, and   *)
(* single inserts and deletes between them, on pools of each size.  The    *)
(* database answers every statement, and a call that can take a step takes *)
(* it in the end.                                                          *)
(***************************************************************************)
PoolItems == {Item(k, "v1", 0, TRUE) : k \in Keys}

PoolBatches == UNION {[1..n -> PoolItems] : n \in 1..2}

BatchStep(c) ==
    \/ BatchBegin(c)
    \/ BatchInsert(c)
    \/ BatchInsertTimeout(c)
    \/ BatchCommit(c)
    \/ BatchRollback(c)

InitPool == InitVector({EMBEDDING_DIMENSION}, {FALSE}) /\ InitRelational(PoolSizes, {TRUE})

NextPool ==
    \/ RelInitialize(TRUE, TRUE)
    \/ \E kind \in {"semantic_concepts", "developer_patterns"}, item \in PoolItems :
          InsertOne(kind, item)
    \/ \E kind \in {"semantic_concepts", "developer_patterns"}, k \in Keys :
          DeleteOne(kind, k)
    \/ \E c \in RelCallers, kind \in {"semantic_concepts", "developer_patterns"},
          items \in PoolBatches : InsertBatch(c, kind, items)
    \/ \E c \in RelCallers : BatchStep(c)

SpecPool == InitPool /\ [][NextPool]_vars /\ \A c \in RelCallers : WF_vars(BatchStep(c))

(***************************************************************************)
(* The client createVectorStorage builds from a StorageConfig, and the     *)
(* requests it sends: initialize(), healthCheck(), getStats(),             *)
(* deleteCollection() and close().                                         *)
(***************************************************************************)
StorageConfigs ==
    {StorageConfig(q, o, e) : q \in {NoKey, "qdrant-key"}, o \in {NoKey, "openai-key"},
                              e \in {NoKey, "env-key"}}

InitCred ==
    InitClient({EMBEDDING_DIMENSION}, StorageConfigs) /\ InitRelational({2}, {TRUE})

NextCred ==
    \/ \E importOk, up, upProbe, upCreate \in BOOLEAN :
          Initialize(importOk, TRUE, up, upProbe, upCreate) /\ UNCHANGED <<relVars, now>>
    \/ Close /\ UNCHANGED <<relVars, now>>
    \/ \E c \in VecCallers, up, upNext \in BOOLEAN :
          HealthCheck(c, up, upNext) /\ UNCHANGED <<relVars, now>>
    \/ \E c \in VecCallers, up \in BOOLEAN : GetStats(c, up) /\ UNCHANGED <<relVars, now>>
    \/ \E c \in VecCallers, up \in BOOLEAN :
          DeleteCollection(c, up) /\ UNCHANGED <<relVars, now>>

SpecCred == InitCred /\ [][NextCred]_vars

(***************************************************************************)
(* The connections of the pool: initialize() with its test connection,     *)
(* close(), and batch inserts, which take a connection for the length of   *)
(* the call.                                                               *)
(***************************************************************************)
InitLeak == InitVector({EMBEDDING_DIMENSION}, {FALSE}) /\ InitRelational(PoolSizes, {TRUE})

NextLeak ==
    \/ \E connects, queryOk \in BOOLEAN : RelInitialize(connects, queryOk)
    \/ RelClose
    \/ \E c \in RelCallers, kind \in {"semantic_concepts", "developer_patterns"},
          items \in PoolBatches : InsertBatch(c, kind, items)
    \/ \E c \in RelCallers : BatchBegin(c)
    \/ \E c \in RelCallers : BatchConnectTimeout(c)
    \/ \E c \in RelCallers : BatchInsert(c)
    \/ \E c \in RelCallers : BatchInsertTimeout(c)
    \/ \E c \in RelCallers : BatchCommit(c)
    \/ \E c \in RelCallers : BatchRollback(c)

SpecLeak == InitLeak /\ [][NextLeak]_vars

(***************************************************************************)
(* The relational client's methods on one record, one call at a time,      *)
(* while the clock goes on.  No statement touches two tables: the calls    *)
(* work on one table at a time, the other tables being empty.              *)
(***************************************************************************)
RecItems ==
    {Item(k, v, n, TRUE) : k \in Keys, v \in Vals, n \in Scores}
        \cup {Item("k1", "v1", 0, FALSE)}

Partials == {[val |-> v, score |-> n] : v \in {"undefined", "v2"}, n \in {Absent, 9}}

OthersEmpty(kind) == \A k \in Kinds \ {kind} : rows[k] = EmptyTable

\* The lists of at most two keys.
Seq2(S) == {<< >>} \cup {<<x>> : x \in S} \cup {<<x, y>> : x, y \in S}

\* The filter of a list getter: omitted, empty, or a value of the column.
ListFilters == {"undefined", "", "v1"}

InitRec == InitVector({EMBEDDING_DIMENSION}, {FALSE}) /\ InitRelational({2}, {TRUE})

NextRec ==
    \/ \E connects \in BOOLEAN : RelInitialize(connects, TRUE)
    \/ RelClose
    \/ TimePasses
    \/ \E item \in RecItems :
          OthersEmpty("semantic_concepts") /\ InsertSemanticConcept(item)
    \/ \E item \in RecItems :
          OthersEmpty("developer_patterns") /\ InsertDeveloperPattern(item)
    \/ \E item \in RecItems :
          OthersEmpty("file_intelligence") /\ InsertFileIntelligence(item)
    \/ \E item \in RecItems :
          OthersEmpty("ai_insights") /\ InsertAIInsight(item)
    \/ \E k \in Keys, u \in Partials :
          OthersEmpty("semantic_concepts") /\ UpdateSemanticConcept(k, u)
    \/ \E k \in Keys, u \in Partials :
          OthersEmpty("developer_patterns") /\ UpdateDeveloperPattern(k, u)
    \/ \E k \in Keys, u \in Partials :
          OthersEmpty("file_intelligence") /\ UpdateFileIntelligence(k, u)
    \/ \E k \in Keys, u \in Partials :
          OthersEmpty("ai_insights") /\ UpdateAIInsight(k, u)
    \/ \E k \in Keys : OthersEmpty("semantic_concepts") /\ DeleteSemanticConcept(k)
    \/ \E k \in Keys : OthersEmpty("developer_patterns") /\ DeleteDeveloperPattern(k)
    \/ \E k \in Keys : OthersEmpty("file_intelligence") /\ DeleteFileIntelligence(k)
    \/ \E k \in Keys : OthersEmpty("ai_insights") /\ DeleteAIInsight(k)
    \/ \E f \in ListFilters, r \in Seq2(Keys) :
          OthersEmpty("semantic_concepts") /\ GetSemanticConcepts(f, r)
    \/ \E f \in ListFilters, r \in Seq2(Keys) :
          OthersEmpty("developer_patterns") /\ GetDeveloperPatterns(f, r)
    \/ \E f \in ListFilters, r \in Seq2(Keys) :
          OthersEmpty("ai_insights") /\ GetAIInsights(f, r)

SpecRec == InitRec /\ [][NextRec]_vars

(***************************************************************************)
(* The lifecycle of the two clients: initialize(), close(), isReady() and  *)
(* healthCheck() of each, the migrations of the relational client on a     *)
(* database that starts empty, and a few reads and writes to tell what a   *)
(* state of the lifecycle allows.                                          *)
(***************************************************************************)
LifeItems == {Item("k1", "v1", 0, TRUE)}

InitLife == InitVector({LOCAL_EMBEDDING_DIMENSION}, {FALSE}) /\ InitRelational({2}, {FALSE})

NextLife ==
    \/ \E connects \in BOOLEAN : RelInitialize(connects, TRUE)
    \/ RelClose
    \/ \E fails \in MigrationFailures : RunMigrations(fails)
    \/ \E v \in Versions : LedgerRecords(v)
    \/ \E dbUp \in BOOLEAN : GetCurrentSchemaVersion(dbUp)
    \/ RelIsReady
    \/ \E dbUp \in BOOLEAN : RelHealthCheck(dbUp)
    \/ \E kind \in Kinds, item \in LifeItems : InsertOne(kind, item)
    \/ \E kind \in ListKinds, f \in {"undefined"}, r \in Seq2(Keys) : GetList(kind, f, r)

SpecLife == InitLife /\ [][NextLife]_vars

(***************************************************************************)
(* Two updateDocument calls in flight on one vector store client: each may *)
(* run up to its next await while the other waits at one of its own.       *)
(***************************************************************************)
InitUpd == InitVector({LOCAL_EMBEDDING_DIMENSION}, {FALSE}) /\ InitRelational({2}, {TRUE})

NextUpd ==
    \/ \E up, upProbe, upCreate \in BOOLEAN :
          /\ \A c \in Callers : pc[c] = "idle"
          /\ Initialize(FALSE, TRUE, up, upProbe, upCreate)
          /\ UNCHANGED <<relVars, now>>
    \/ \E docs \in DocumentLists :
          /\ \A c \in Callers : pc[c] = "idle"
          /\ ImportData(1, docs)
          /\ UNCHANGED <<relVars, now>>
    \/ \E up \in BOOLEAN : UpsertBatch(1, up) /\ UNCHANGED <<relVars, now>>
    \/ \E c \in Callers, d \in DocIds, u \in UpdatesSet, up \in BOOLEAN :
          UpdateDocument(c, d, u, up) /\ UNCHANGED <<relVars, now>>
    \/ \E c \in Callers, up \in BOOLEAN :
          UpdateDocumentMerge(c, up) /\ UNCHANGED <<relVars, now>>
    \/ \E c \in Callers, up \in BOOLEAN :
          UpdateDocumentPut(c, up) /\ UNCHANGED <<relVars, now>>
    \/ \E c \in Callers : LocalReturn(c, TRUE) /\ UNCHANGED <<relVars, now>>
    \/ \E c \in Callers : GenInsert(c) /\ UNCHANGED <<relVars, now>>

SpecUpd == InitUpd /\ [][NextUpd]_vars

(***************************************************************************)
(* Readiness and health of the two clients: initialize(), close(),         *)
(* isReady() and healthCheck() of each, deleteCollection(), and enough of  *)
(* the vector store's data plane to fill the collection and count it.      *)
(***************************************************************************)
InitHealth == InitVector({LOCAL_EMBEDDING_DIMENSION}, {FALSE}) /\ InitRelational({2}, {TRUE})

NextHealth ==
    \/ \E connects \in BOOLEAN : RelInitialize(connects, TRUE)
    \/ RelClose
    \/ RelIsReady
    \/ \E dbUp \in BOOLEAN : RelHealthCheck(dbUp)
    \/ \E up, upProbe, upCreate \in BOOLEAN :
          Initialize(FALSE, TRUE, up, upProbe, upCreate) /\ UNCHANGED <<relVars, now>>
    \/ Close /\ UNCHANGED <<relVars, now>>
    \/ \E c \in VecCallers : IsReady(c) /\ UNCHANGED <<relVars, now>>
    \/ \E c \in VecCallers, up, upNext \in BOOLEAN :
          HealthCheck(c, up, upNext) /\ UNCHANGED <<relVars, now>>
    \/ \E c \in VecCallers, up \in BOOLEAN :
          DeleteCollection(c, up) /\ UNCHANGED <<relVars, now>>
    \/ \E c \in VecCallers, up \in BOOLEAN : GetStats(c, up) /\ UNCHANGED <<relVars, now>>
    \/ \E c \in VecCallers, docs \in DocumentLists :
          ImportData(c, docs) /\ UNCHANGED <<relVars, now>>
    \/ \E c \in VecCallers, up \in BOOLEAN : UpsertBatch(c, up) /\ UNCHANGED <<relVars, now>>
    \/ \E c \in VecCallers, dbUp, up, upNext \in BOOLEAN :
          ProviderHealthCheck(c, dbUp, up, upNext)

SpecHealth == InitHealth /\ [][NextHealth]_vars

(***************************************************************************)
(* Properties of generateEmbedding.                                        *)
(***************************************************************************)
\* C1: every vector generateEmbedding returns has exactly the configured
\* vectorSize components, whichever tier served the call.
C1_ConfiguredLength ==
    last.ret.kind = "resolved" => last.ret.vec.len = vectorSize

\* C2: generateEmbedding never fails outward: every call that settled,
\* called on its own or from inside another method, resolved with a vector,
\* whatever errors (provider error, open circuit, local-model error) it met on
\* the way.
C2_NeverFailsOutward ==
    /\ last # NoCall =>
          /\ last.ret.kind = "resolved"
          /\ last.ret.err = "none"
          /\ last.ret.vec # NoVec
    /\ \A c \in Callers : emb[c].kind # "rejected"

\* A call that met the open circuit and still resolved.
C2_Witness ==
    /\ last.events = {"circuit-open"}
    /\ last.ret.kind = "resolved"
    /\ brState = "open"

\* C3: a call whose remote attempt failed (provider error or open circuit)
\* returns the next tier's vector: the local model's when it is loaded (the
\* hash-based one if that fails too), the hash-based one otherwise; not zeros.
C3_FallsThrough ==
    (last.events \cap {"remote-error", "circuit-open"} # {}) =>
        /\ last.ret.kind = "resolved"
        /\ last.ret.vec \in {LocalModelVector(last.text),
                             generateFallbackEmbedding(last.text)}
        /\ last.ret.vec.tier # "zero"

\* C4: a call for the text of the call that settled just before it (no
\* close() in between) returns the identical vector and computes nothing: it is
\* answered from the cache.
C4_SecondCallCached ==
    [][\A c \in Callers, t \in Texts :
          (GenerateEmbedding(c, t) /\ lastStanding /\ last.text = t
               /\ last.ret.kind = "resolved")
          => /\ last'.ret = last.ret
             /\ last'.events = {"hit"}
             /\ pc'[c] = "idle"]_vars

\* C5: the embedding cache never holds more than its capacity.
C5_CacheBounded == Len(embeddingCache) <= EMBEDDING_CACHE_SIZE

\* C6: inserting a new key into a full cache evicts exactly the entry that
\* was inserted first and appends the new one.
C6_EvictsOldest ==
    [][\A c \in Callers :
          (GenInsert(c) /\ Len(embeddingCache) >= EMBEDDING_CACHE_SIZE
               /\ ~CacheHas(embeddingCache, text[c]))
          => embeddingCache' =
                 Append(Tail(embeddingCache),
                        [key |-> text[c], val |-> pending[c]])]_vars

(***************************************************************************)
(* Properties of the circuit breaker.                                      *)
(***************************************************************************)
\* C7: the k-th provider failure in a row leaves the breaker open, and a call
\* made while it is open with the cooldown running fails at once with the
\* open-circuit error: embeddings.create is not invoked and the breaker is
\* unchanged.
C7_OpensAndShortCircuits ==
    [][\A c \in Callers :
          /\ (RemoteFail(c) /\ consecFails' >= FailureThreshold)
                => brState' = "open"
          /\ \A t \in Texts :
                (GenerateEmbedding(c, t) /\ GenRemote(c, DirectFrame, t)
                     /\ brState = "open" /\ ~CooldownElapsed(brSince))
                => /\ pc'[c] = "idle"
                   /\ last'.text = t
                   /\ last'.events = {"circuit-open"}
                   /\ UNCHANGED breakerVars]_vars

\* The breaker is open, the cooldown is running and a call was just refused.
C7_Witness ==
    /\ brState = "open"
    /\ ~CooldownElapsed(brSince)
    /\ consecFails >= FailureThreshold
    /\ last.events = {"circuit-open"}

\* C8: with the breaker open and the cooldown over, the next call is let
\* through as the trial (and no other while it is in flight); the trial's
\* success closes the breaker and zeroes the failure count, its failure opens
\* the breaker again and restarts the cooldown.
C8_HalfOpenTrial ==
    [][\A c \in Callers :
          /\ \A t \in Texts :
                /\ (GenerateEmbedding(c, t) /\ GenRemote(c, DirectFrame, t)
                        /\ brState = "open" /\ CooldownElapsed(brSince))
                      => /\ pc'[c] = "remote"
                         /\ trial'[c]
                         /\ brState' = "half-open"
                /\ (GenerateEmbedding(c, t) /\ GenRemote(c, DirectFrame, t)
                        /\ brState = "half-open")
                      => pc'[c] = "idle" /\ last'.events = {"circuit-open"}
          /\ (RemoteOk(c) /\ trial[c])
                => brState' = "closed" /\ brFailures' = 0
          /\ (RemoteFail(c) /\ trial[c])
                => brState' = "open" /\ brSince' = 0 /\ ~CooldownElapsed(brSince')]_vars

\* A trial call succeeded and closed the breaker.
C8_Witness ==
    /\ brState = "closed"
    /\ brFailures = 0
    /\ \E c \in Callers : pc[c] = "insert" /\ trial[c]

(***************************************************************************)
(* Properties of the vector store client.                                  *)
(***************************************************************************)
DataPlaneOps ==
    {"storeCodeEmbedding", "storeMultipleEmbeddings", "searchSimilarCode",
     "searchByEmbedding", "updateDocument", "deleteDocument", "deleteDocuments",
     "getDocument", "listDocuments", "getStats", "exportData", "importData",
     "optimizeIndex", "deleteCollection"}

\* C9: a data-plane method invoked while the client is not ready fails with
\* the 'not initialized' error and has sent no request to the vector store.
C9_NotReadyFailsWithoutRequest ==
    (vlast.op \in DataPlaneOps /\ ~vlast.ready) =>
        /\ vlast.outcome = "not-initialized"
        /\ vlast.sent = << >>

(***************************************************************************)
(* Properties of the relational client.                                    *)
(***************************************************************************)
\* C10: a batch insert is all-or-nothing: when it rejects, the table is as it
\* was before the call; when it resolves, every item of the batch is in the
\* table.
C10_BatchAllOrNothing ==
    (rlast.op \in {"insertSemanticConceptsBatch", "insertDeveloperPatternsBatch"}) =>
        /\ rlast.outcome = "rejected" => rlast.unchanged
        /\ rlast.outcome = "ok" => rlast.present

(***************************************************************************)
(* Properties of the batched writes of the vector store client.            *)
(***************************************************************************)
\* C11: storeMultipleEmbeddings and importData send their points in
\* consecutive chunks of at most batchSize points, one PUT at a time, in input
\* order; when the PUT of a chunk fails, the chunks before it stay in the
\* collection, no later chunk is sent and the call fails with that error.
C11_ChunkedUpsert ==
    [][\A c \in VecCallers, up \in BOOLEAN :
          UpsertBatch(c, up) =>
              LET f == frame[c]
                  rest == Len(f.built) - f.next + 1
                  size == IF rest > batchSize THEN batchSize ELSE rest
              IN  /\ f.next = Len(f.sent) * batchSize + 1
                  /\ IF CollectionAnswers(up)
                     THEN /\ points' = UpsertPoints(points,
                                           SubSeq(f.built, f.next, f.next + size - 1))
                          /\ IF rest > batchSize
                             THEN /\ pc'[c] = "batch"
                                  /\ frame'[c].next = f.next + batchSize
                                  /\ Len(frame'[c].sent) = Len(f.sent) + 1
                             ELSE /\ vlast'.op = f.op
                                  /\ vlast'.outcome = "ok"
                                  /\ Len(vlast'.sent) = Len(f.sent) + 1
                     ELSE /\ vlast'.op = f.op
                          /\ vlast'.outcome = "error"
                          /\ Len(vlast'.sent) = Len(f.sent) + 1
                          /\ pc'[c] = "idle"
                          /\ points' = points
                          /\ \A i \in 1..(f.next - 1) :
                                points[f.built[i].id] = Serialize(f.built[i])]_vars

\* The second chunk of a storeMultipleEmbeddings call failed; the point of its
\* first chunk is in the collection.
C11_Witness ==
    /\ vlast.op = "storeMultipleEmbeddings"
    /\ vlast.outcome = "error"
    /\ Len(vlast.sent) = 2
    /\ points["d1"] # NoPoint

\* C12: storeMultipleEmbeddings called on a ready client with lists of
\* different lengths is rejected before any I/O: no embedding is generated
\* (no call in flight, the cache and the breaker as they were), no progress
\* callback has fired (no frame), and no request is sent.
C12_LengthMismatchRejected ==
    [][\A c \in VecCallers, chunks \in ChunkLists, metas \in MetadataLists :
          (/\ StoreMultipleEmbeddings(c, chunks, metas)
           /\ initialized
           /\ Len(chunks) # Len(metas))
          => /\ vlast'.op = "storeMultipleEmbeddings"
             /\ vlast'.ready
             /\ vlast'.outcome = "validation"
             /\ vlast'.sent = << >>
             /\ frame'[c].progress = 0
             /\ UNCHANGED <<embeddingCache, breakerVars, callVars, frameVars,
                            lastVars, storeVars>>]_vars

\* A call with lists of different lengths was rejected on a ready client.
C12_Witness ==
    /\ vlast.op = "storeMultipleEmbeddings"
    /\ vlast.outcome = "validation"
    /\ vlast.ready
    /\ initialized

(***************************************************************************)
(* Properties of the relational client's methods on one record.            *)
(***************************************************************************)
\* C13: for semantic concepts, developer patterns and file intelligence an
\* insert* that the database accepts leaves exactly one row under the item's
\* key, carrying the item's values; the rows under the other keys and the
\* other tables are as they were, and the table has one more row exactly when
\* the key was not there.
C13_UpsertOneRowPerKey ==
    [][\A kind \in {"semantic_concepts", "developer_patterns", "file_intelligence"},
         item \in RecItems :
          (pool = "open" /\ item.valid /\ InsertOne(kind, item))
          => /\ rlast'.outcome = "ok"
             /\ rows'[kind][item.key] # NoRow
             /\ rows'[kind][item.key].val = item.val
             /\ rows'[kind][item.key].score = item.score
             /\ \A k \in Keys \ {item.key} : rows'[kind][k] = rows[kind][k]
             /\ \A other \in Kinds \ {kind} : rows'[other] = rows[other]
             /\ RowCount(rows'[kind]) =
                    RowCount(rows[kind])
                        + (IF rows[kind][item.key] = NoRow THEN 1 ELSE 0)]_vars

\* A semantic concept was inserted again under its key, later than it was
\* created: the table has this one row.
C13_Witness ==
    /\ rlast.op = "insertSemanticConcept"
    /\ rlast.outcome = "ok"
    /\ RowCount(rows["semantic_concepts"]) = 1
    /\ rows["semantic_concepts"]["k1"].val = "v2"
    /\ rows["semantic_concepts"]["k1"].created < rows["semantic_concepts"]["k1"].stamp

\* C14: insertAIInsight is an upsert: inserting an insight whose insightId is
\* in the table succeeds, overwrites the other fields of the row and leaves
\* one row under that insightId.
C14_InsightUpsert ==
    [][\A item \in RecItems :
          (/\ pool = "open"
           /\ item.valid
           /\ rows["ai_insights"][item.key] # NoRow
           /\ InsertAIInsight(item))
          => /\ rlast'.outcome = "ok"
             /\ rows'["ai_insights"][item.key].val = item.val
             /\ rows'["ai_insights"][item.key].score = item.score
             /\ RowCount(rows'["ai_insights"]) = RowCount(rows["ai_insights"])]_vars

\* C15: created_at is set once, by the insert that creates the row: no later
\* insert* and no update* changes it; the mutation timestamp (updated_at of
\* semantic concepts, last_seen of developer patterns) is set to the present
\* instant by every insert* and by every update* that supplies a field.
C15_CreatedOnceStampRefreshed ==
    [][/\ \A kind \in Kinds, k \in Keys :
             (rows[kind][k] # NoRow /\ rows'[kind][k] # NoRow)
             => rows'[kind][k].created = rows[kind][k].created
       /\ \A kind \in {"semantic_concepts", "developer_patterns"}, item \in RecItems :
             (pool = "open" /\ item.valid /\ InsertOne(kind, item))
             => /\ rows'[kind][item.key].stamp = now
                /\ rows[kind][item.key] = NoRow
                      => rows'[kind][item.key].created = now
       /\ \A kind \in {"semantic_concepts", "developer_patterns"}, k \in Keys,
            u \in Partials \ {NoPartial} :
             (pool = "open" /\ rows[kind][k] # NoRow /\ UpdateOne(kind, k, u))
             => rows'[kind][k].stamp = now]_vars

\* A developer pattern created at instant 0 was updated at instant 2.
C15_Witness ==
    /\ rlast.op = "updateDeveloperPattern"
    /\ rlast.outcome = "ok"
    /\ now = 2
    /\ rows["developer_patterns"]["k1"] # NoRow
    /\ rows["developer_patterns"]["k1"].created = 0
    /\ rows["developer_patterns"]["k1"].stamp = 2

\* C16: update*(key, partial) on a row that exists changes the fields that
\* partial supplies, and the mutation timestamp, and nothing else: the fields
\* not supplied, created_at, the rows under the other keys, the other tables
\* and the number of rows are as they were.  A call that supplies no field
\* changes nothing and sends no statement.
C16_UpdateSuppliedFieldsOnly ==
    [][\A kind \in Kinds, k \in Keys, u \in Partials :
          UpdateOne(kind, k, u)
          => IF u = NoPartial
             THEN /\ rows' = rows
                  /\ rlast'.outcome = "ok"
                  /\ ~rlast'.queried
             ELSE (pool = "open" /\ rows[kind][k] # NoRow)
                  => /\ rlast'.outcome = "ok"
                     /\ rows'[kind][k].val =
                            (IF u.val # "undefined" THEN u.val ELSE rows[kind][k].val)
                     /\ rows'[kind][k].score =
                            (IF u.score # Absent THEN u.score ELSE rows[kind][k].score)
                     /\ rows'[kind][k].created = rows[kind][k].created
                     /\ rows'[kind][k].stamp =
                            (IF Stamped(kind) THEN now ELSE rows[kind][k].stamp)
                     /\ \A j \in Keys \ {k} : rows'[kind][j] = rows[kind][j]
                     /\ \A other \in Kinds \ {kind} : rows'[other] = rows[other]
                     /\ RowCount(rows'[kind]) = RowCount(rows[kind])]_vars

\* A semantic concept inserted with conceptName v1 was updated with the score
\* alone: one row, the new score, the name it had.
C16_Witness ==
    /\ rlast.op = "updateSemanticConcept"
    /\ rlast.outcome = "ok"
    /\ rlast.queried
    /\ ~rlast.unchanged
    /\ RowCount(rows["semantic_concepts"]) = 1
    /\ rows["semantic_concepts"]["k1"].val = "v1"
    /\ rows["semantic_concepts"]["k1"].score = 9

(***************************************************************************)
(* Properties of the vector store client's searches and single documents.  *)
(***************************************************************************)
\* What the caller of a search may expect of its results under the options it
\* supplied: best first, none scoring under a supplied threshold, no more of
\* them than a supplied limit.
SearchResultsMeet(results, options) ==
    /\ \A i \in 1..Len(results), j \in 1..Len(results) :
          i < j => results[i].similarity >= results[j].similarity
    /\ options.threshold # Absent
          => \A i \in 1..Len(results) : results[i].similarity >= options.threshold
    /\ options.limit # Absent => Len(results) <= options.limit

\* C17: the results a searchByEmbedding or searchSimilarCode call resolves to
\* are ordered by similarity descending, none of them scores below the
\* threshold the caller supplied, and there are at most as many as the limit
\* the caller supplied.
C17_SearchOrderedBounded ==
    [][/\ \A c \in VecCallers, v \in QueryVectors, o \in SearchOptionsSet,
            up \in BOOLEAN :
             (SearchByEmbedding(c, v, o, up) /\ vlast'.outcome = "ok")
             => SearchResultsMeet(vlast'.val.results, o)
       /\ \A c \in VecCallers, up \in BOOLEAN :
             (SearchSimilarCodeSearch(c, up) /\ vlast'.outcome = "ok")
             => SearchResultsMeet(vlast'.val.results, frame[c].opts)]_vars

\* C18: when storeCodeEmbedding(code, metadata) resolves on a ready client it
\* returns metadata.id, and getDocument(metadata.id), called next with the
\* server answering, resolves to a document with that id, whose content is
\* code and whose metadata is the caller's metadata: its tag and its
\* lastModified, a Date.
C18_StoreGetRoundTrip ==
    [][\A c \in VecCallers, d \in DocIds :
          (/\ StoreCodeEmbeddingPut(c, TRUE)
           /\ initialized
           /\ frame[c].id = d
           /\ vlast'.outcome = "ok")
          => /\ vlast'.val.id = d
             /\ GetDocumentResult(d, TRUE)'.id = d
             /\ GetDocumentResult(d, TRUE)'.content = text[c]
             /\ GetDocumentResult(d, TRUE)'.tag = frame[c].tag
             /\ GetDocumentResult(d, TRUE)'.lastModified = "Date"]_vars

\* The caller of updateDocument supplied a content.
ContentSupplied(updates) == updates.given

\* C19: updateDocument(id, partial) on a ready client with the server
\* answering.  For an id that is stored it writes one point under that id:
\* its content is partial.content when a content is supplied and the existing
\* content otherwise, its metadata is the existing metadata with the fields
\* of partial.metadata laid over it, its vector is generated anew from the new
\* content exactly when a content is supplied and is the existing vector
\* otherwise, its created instant is the existing one and its updated instant
\* is the present; the other points stay as they are.  For an id that is not
\* stored the call fails with not-found after its read and writes nothing.
C19_UpdateDocumentMerges ==
    [][\A c \in VecCallers :
          /\ \A d \in DocIds, u \in UpdatesSet :
                (UpdateDocument(c, d, u, TRUE) /\ initialized /\ collExists)
                => frame'[c].existing = points[d]
          /\ (UpdateDocumentMerge(c, TRUE) /\ frame[c].existing = NoPoint)
                => /\ vlast'.op = "updateDocument"
                   /\ vlast'.outcome = "not-found"
                   /\ vlast'.sent = <<"GET point">>
                   /\ points' = points
          /\ (UpdateDocumentMerge(c, TRUE) /\ frame[c].existing # NoPoint)
                => (ContentSupplied(frame[c].updates) <=> pc'[c] # "idle")
          /\ \A d \in DocIds :
                (/\ UpdateDocumentMerge(c, TRUE) \/ UpdateDocumentPut(c, TRUE)
                 /\ frame[c].id = d
                 /\ frame[c].existing # NoPoint
                 /\ pc'[c] = "idle"
                 /\ vlast'.outcome = "ok")
                => /\ points'[d].id = d
                   /\ points'[d].content =
                         IF ContentSupplied(frame[c].updates)
                         THEN frame[c].updates.str ELSE frame[c].existing.content
                   /\ points'[d].tag =
                         IF frame[c].updates.tag # "none"
                         THEN frame[c].updates.tag ELSE frame[c].existing.tag
                   /\ points'[d].lastModified = frame[c].existing.lastModified
                   /\ IF ContentSupplied(frame[c].updates)
                      THEN /\ pc[c] = "embedded"
                           /\ text[c] = frame[c].updates.str
                           /\ points'[d].vector = emb[c].vec
                      ELSE points'[d].vector = frame[c].existing.vector
                   /\ points'[d].created = frame[c].existing.created
                   /\ points'[d].updated = now
                   /\ \A e \in DocIds \ {d} : points'[e] = points[e]]_vars

\* C20: on a ready client getDocument(id) never rejects, whether the server
\* answers or not, and resolves to null for an id that is not stored; with
\* the server answering, deleteDocument(id) of an id that is not stored
\* resolves and leaves every point as it was, and deleteDocument(id) of a
\* stored id resolves and getDocument(id) called next resolves to null.
C20_MissingIdIsAbsent ==
    [][\A c \in VecCallers, d \in DocIds :
          /\ \A up \in BOOLEAN :
                (GetDocument(c, d, up) /\ initialized)
                => /\ vlast'.op = "getDocument"
                   /\ vlast'.outcome = "ok"
                   /\ points[d] = NoPoint => vlast'.val.document = NoPoint
          /\ (DeleteDocument(c, d, TRUE) /\ initialized /\ points[d] = NoPoint)
                => /\ vlast'.op = "deleteDocument"
                   /\ vlast'.outcome = "ok"
                   /\ points' = points
          /\ (DeleteDocument(c, d, TRUE) /\ initialized /\ points[d] # NoPoint)
                => /\ vlast'.op = "deleteDocument"
                   /\ vlast'.outcome = "ok"
                   /\ initialized'
                   /\ \A up \in BOOLEAN : GetDocumentResult(d, up)' = NoPoint
                   /\ \A e \in DocIds \ {d} : points'[e] = points[e]]_vars

\* getDocument resolved to null on a ready client whose collection holds d2
\* and not d1.
C20_Witness ==
    /\ initialized
    /\ vlast.op = "getDocument"
    /\ vlast.outcome = "ok"
    /\ vlast.val = [document |-> NoPoint]
    /\ Stored(points) = {"d2"}

\* The stored documents a deleteDocuments filter matches.
Matching(store, filter) ==
    {d \in Stored(store) : FilterMatches(filter, store[d])}

\* C21: deleteDocuments(filter) on a ready client with the server answering
\* removes exactly the stored documents that match the filter and resolves to
\* their number.
C21_DeleteDocumentsCounts ==
    [][\A c \in VecCallers, f \in {"all", "t1"} :
          (DeleteDocuments(c, f, TRUE) /\ initialized)
          => /\ vlast'.op = "deleteDocuments"
             /\ vlast'.outcome = "ok"
             /\ Stored(points') = Stored(points) \ Matching(points, f)
             /\ \A d \in Stored(points') : points'[d] = points[d]
             /\ vlast'.val.count = Cardinality(Matching(points, f))]_vars

(***************************************************************************)
(* Properties of the relational client's readers, lifecycle and health.    *)
(***************************************************************************)
\* C22: a list getter that resolves returns exactly the rows that match its
\* filter, all the rows when the filter is omitted (or empty), each once, and
\* in order of creation time, newest first.
C22_ListNewestFirst ==
    [][\A kind \in ListKinds, f \in ListFilters, r \in Seq2(Keys) :
          (GetList(kind, f, r) /\ rlast'.outcome = "ok")
          => /\ rlast'.val.keys = r
             /\ {r[i] : i \in 1..Len(r)} =
                   {k \in Keys : /\ rows[kind][k] # NoRow
                                 /\ f \notin {"undefined", ""}
                                       => rows[kind][k].val = f}
             /\ \A i, j \in 1..Len(r) : i # j => r[i] # r[j]
             /\ \A i, j \in 1..Len(r) :
                   i < j => rows[kind][r[i]].created >= rows[kind][r[j]].created]_vars

\* C23: an initialize() of the relational client that succeeds on an empty
\* database leaves the four tables and their indexes in place, so that the
\* insert* and get* methods of the initialized client succeed with no
\* runMigrations() call; and running the schema creation on a database that
\* has the schema changes neither the schema nor the rows.
C23_InitializeCreatesSchema ==
    [][/\ (RelInitialize(TRUE, TRUE) /\ ~schema) => schema'
       /\ \A kind \in Kinds, item \in LifeItems :
             (/\ InsertOne(kind, item)
              /\ relInitialized /\ pool = "open"
              /\ rows[kind][item.key] = NoRow)
             => rlast'.outcome = "ok"
       /\ \A kind \in ListKinds, r \in Seq2(Keys) :
             (GetList(kind, "undefined", r) /\ relInitialized /\ pool = "open")
             => rlast'.outcome = "ok"
       /\ (RunMigrations("none") /\ pool = "open" /\ schema)
             => /\ rlast'.outcome = "ok"
                /\ schema'
                /\ rows' = rows]_vars

\* C24: getCurrentSchemaVersion() never fails.  When the client has a pool,
\* the database answers and the migrations table holds versions, it returns
\* the highest of them; in every other case (no pool, the read fails, no
\* migrations table, no version recorded) it returns 0.
C24_SchemaVersionNeverFails ==
    [][\A dbUp \in BOOLEAN :
          GetCurrentSchemaVersion(dbUp)
          => /\ rlast'.op = "getCurrentSchemaVersion"
             /\ rlast'.outcome = "ok"
             /\ IF pool # "null" /\ dbUp /\ ledger.exists /\ ledger.versions # {}
                THEN /\ rlast'.val.version \in ledger.versions
                     /\ \A w \in ledger.versions : w <= rlast'.val.version
                ELSE rlast'.val.version = 0]_vars

\* The call returned the highest of two recorded versions.
C24_Witness ==
    /\ rlast.op = "getCurrentSchemaVersion"
    /\ rlast.outcome = "ok"
    /\ rlast.val = [version |-> 2]
    /\ ledger.versions = {1, 2}

\* C25: pool exhaustion makes a caller wait and nothing else.  With the
\* database answering every statement, a batch insert of items the database
\* accepts is never rejected, on a pool of any size, and every batch insert
\* that has started completes in the end.
C25_PoolExhaustionOnlyDelays ==
    /\ [][\A c \in RelCallers :
             (BatchRollback(c) /\ pool = "open")
             => \E i \in 1..Len(rframe[c].items) : ~rframe[c].items[i].valid]_vars
    /\ \A c \in RelCallers : (rpc[c] # "idle") ~> (rpc[c] = "idle")

(***************************************************************************)
(* Properties of readiness and health.                                     *)
(***************************************************************************)
\* C26: once close() has completed, a healthCheck() of the closed client
\* reports healthy: false, on the relational client and on the vector store
\* client, whether the backend answers or not.
C26_ClosedIsUnhealthy ==
    [][/\ RelClose => \A dbUp \in BOOLEAN : ~RelHealth(dbUp)'.healthy
       /\ Close => \A up, upNext \in BOOLEAN : ~VecHealth(up, upNext)'.healthy]_vars

\* C27: healthCheck() of either client resolves in every state of the
\* lifecycle, to a result with a healthy flag and a message; an unreachable
\* server, a missing collection, a missing pool and a failing query all give
\* healthy: false.
C27_HealthCheckNeverThrows ==
    [][/\ \A dbUp \in BOOLEAN :
             RelHealthCheck(dbUp)
             => /\ rlast'.op = "healthCheck"
                /\ rlast'.outcome = "ok"
                /\ rlast'.val.healthy \in BOOLEAN
                /\ rlast'.val.message # ""
                /\ (pool = "null" \/ ~dbUp) => ~rlast'.val.healthy
       /\ \A c \in VecCallers, up, upNext \in BOOLEAN :
             HealthCheck(c, up, upNext)
             => /\ vlast'.op = "healthCheck"
                /\ vlast'.outcome = "ok"
                /\ vlast'.val.healthy \in BOOLEAN
                /\ vlast'.val.message # ""
                /\ (~up \/ ~upNext \/ ~collExists) => ~vlast'.val.healthy]_vars

\* Both clients have reported a failure as a result: the relational client
\* without a pool, the vector store client before its first initialize().
C27_Witness ==
    /\ rlast.op = "healthCheck"
    /\ rlast.outcome = "ok"
    /\ ~rlast.val.healthy
    /\ pool = "null"
    /\ vlast.op = "healthCheck"
    /\ vlast.outcome = "ok"
    /\ ~vlast.val.healthy
    /\ ~initialized

\* C28: StorageProvider.healthCheck() reports each backend's own health
\* check, whatever the other backend does, and its overall flag is true
\* exactly when both backends are healthy; with the database answering and
\* the vector store's server down it reports the relational store healthy,
\* the vector store unhealthy, and overall false.
C28_OverallIsConjunction ==
    [][\A c \in VecCallers, dbUp, up, upNext \in BOOLEAN :
          ProviderHealthCheck(c, dbUp, up, upNext)
          => /\ vlast'.op = "StorageProvider.healthCheck"
             /\ vlast'.outcome = "ok"
             /\ vlast'.val.relational = RelHealth(dbUp)
             /\ vlast'.val.vector = VecHealth(up, upNext)
             /\ vlast'.val.overall
                   <=> (vlast'.val.relational.healthy /\ vlast'.val.vector.healthy)
             /\ (pool = "open" /\ dbUp /\ ~up)
                   => /\ vlast'.val.relational.healthy
                      /\ ~vlast'.val.vector.healthy
                      /\ ~vlast'.val.overall]_vars

\* An outage of the vector store alone, as the provider reported it.
C28_Witness ==
    /\ vlast.op = "StorageProvider.healthCheck"
    /\ vlast.val.relational.healthy
    /\ ~vlast.val.vector.healthy
    /\ ~vlast.val.overall

\* C29: the vector store client's readiness.  isReady() answers false on a
\* newly constructed client; it turns true only in an initialize() that
\* completes (the server answers); close() and a deleteCollection() that
\* completes leave it false; and the initialize() that follows a
\* deleteCollection() makes the client ready on a collection that exists
\* and holds no document.
C29_ReadinessLifecycle ==
    /\ ~initialized
    /\ [][/\ \A c \in VecCallers : IsReady(c) => vlast'.val.ready = initialized
          /\ (~initialized /\ initialized')
                => \E importOk, pipelineOk, up, upProbe, upCreate \in BOOLEAN :
                      /\ Initialize(importOk, pipelineOk, up, upProbe, upCreate)
                      /\ InitializeResolves(up, upProbe, upCreate)
          /\ \A importOk, pipelineOk, up, upProbe, upCreate \in BOOLEAN :
                Initialize(importOk, pipelineOk, up, upProbe, upCreate)
                   => IF InitializeResolves(up, upProbe, upCreate)
                      THEN initialized' /\ collExists'
                      ELSE initialized' = initialized
          /\ Close => ~initialized'
          /\ \A c \in VecCallers, up \in BOOLEAN :
                (DeleteCollection(c, up) /\ vlast'.outcome = "ok")
                   => ~initialized' /\ ~collExists'
          /\ (~collExists /\ collExists')
                => /\ \E importOk, pipelineOk, up, upProbe, upCreate \in BOOLEAN :
                         /\ Initialize(importOk, pipelineOk, up, upProbe, upCreate)
                         /\ InitializeResolves(up, upProbe, upCreate)
                   /\ initialized'
                   /\ Cardinality(Stored(points')) = 0]_vars

\* The client ready again, on an empty collection, its last answer still
\* that of the deleteCollection() that completed.
C29_Witness ==
    /\ vlast.op = "deleteCollection"
    /\ vlast.outcome = "ok"
    /\ initialized
    /\ collExists
    /\ Cardinality(Stored(points)) = 0

\* C30: on an open pool with the tables in place, delete*(key) resolves,
\* leaves no row with that key and leaves every other row of the table, and
\* every other table, as it was, so that the getter of the kind does not
\* return the key afterwards, whatever its filter; when no row has the key
\* the call resolves and the tables are unchanged.
C30_DeleteRemovesThatRowOnly ==
    [][\A kind \in Kinds, key \in Keys :
          (DeleteOne(kind, key) /\ pool = "open" /\ schema)
          => /\ rlast'.op = DeleteOp(kind)
             /\ rlast'.outcome = "ok"
             /\ rows'[kind][key] = NoRow
             /\ \A k \in Keys \ {key} : rows'[kind][k] = rows[kind][k]
             /\ \A other \in Kinds \ {kind} : rows'[other] = rows[other]
             /\ kind \in ListKinds
                   => \A f \in ListFilters : key \notin Selected(rows'[kind], f)
             /\ kind = "file_intelligence"
                   => GetFileIntelligenceResult(rows'[kind], key) = NoRow
             /\ rows[kind][key] = NoRow => rows' = rows]_vars

\* A delete that removed one of two rows, and a delete of a key without a
\* row: both resolved.
C30_Witness ==
    /\ rlast.op = "deleteSemanticConcept"
    /\ rlast.outcome = "ok"
    /\ ~rlast.unchanged
    /\ rows["semantic_concepts"]["k1"] = NoRow
    /\ rows["semantic_concepts"]["k2"] # NoRow

\* C31: in an initialize() whose root request is answered, the request that
\* creates the collection is sent only when the collection is not there;
\* when it is there no such request is sent and its points stay as they
\* are, so that a second initialize() leaves the store as the first did.
C31_CreateOnlyWhenAbsent ==
    [][\A importOk, pipelineOk, upProbe, upCreate \in BOOLEAN :
          Initialize(importOk, pipelineOk, TRUE, upProbe, upCreate)
          => /\ "PUT collection" \in Range(EnsureCollectionRequests(upProbe))
                   => ~collExists
             /\ collExists => /\ collExists'
                              /\ points' = points]_vars

\* C32: updateDocument reads, then writes, and other calls run in between.
\* The document a call writes is its own updates merged into the version it
\* read, whatever the store holds at the moment of the write: when another
\* updateDocument of the same id wrote in between, that call's changes are
\* gone (the later write wins).  After every write the stored document is
\* the merge of the writer's updates into the version that writer read, and
\* no other document changed.
C32_UpdateIsLastWriterWins ==
    [][\A c \in Callers, up \in BOOLEAN :
          ( /\ UpdateDocumentMerge(c, up) \/ UpdateDocumentPut(c, up)
            /\ pc'[c] = "idle"
            /\ vlast'.op = "updateDocument"
            /\ vlast'.outcome = "ok" )
          => LET f == frame[c]
                 newContent == f.updates.given /\ f.updates.str # << >>
             IN  /\ points'[f.id].content
                       = IF newContent THEN f.updates.str ELSE f.existing.content
                 /\ points'[f.id].tag
                       = IF f.updates.tag # "none" THEN f.updates.tag
                         ELSE f.existing.tag
                 /\ points'[f.id].vector
                       = IF newContent THEN emb[c].vec ELSE f.existing.vector
                 /\ points'[f.id].created = f.existing.created
                 /\ \A d \in DocIds \ {f.id} : points'[d] = points[d]]_vars

\* Both calls read the same version of d1; one has written its tag, and the
\* other, about to write, still holds the version without it.
C32_Witness ==
    /\ vlast.op = "updateDocument"
    /\ vlast.outcome = "ok"
    /\ pc[1] = "idle"
    /\ pc[2] = "embedded"
    /\ frame[2].op = "updateDocument"
    /\ frame[2].id = "d1"
    /\ frame[2].existing.tag = "t0"
    /\ points["d1"].tag = "t1"

\* C33: a method of the relational client that works on records (insert*,
\* update*, delete*, the list getters), called with any arguments while the
\* client is not initialized (initialize() has not completed, or close()
\* has run), fails: it does not resolve.
C33_NotInitializedFails ==
    [][\A kind \in Kinds :
          ( /\ ~relInitialized
            /\ \/ \E item \in RecItems : InsertOne(kind, item)
               \/ \E k \in Keys, u \in Partials : UpdateOne(kind, k, u)
               \/ \E k \in Keys : DeleteOne(kind, k)
               \/ \E f \in ListFilters, r \in Seq2(Keys) :
                     kind \in ListKinds /\ GetList(kind, f, r) )
          => rlast'.outcome = "rejected"]_vars

\* C34: a search that resolves returns what the server finds for the
\* caller's own limit and threshold, every supplied value included (a limit
\* of 0, a threshold of 0); the defaults 10 and 0.7 stand in only for an
\* option that is omitted.
C34_SearchUsesSuppliedOptions ==
    [][\A c \in VecCallers, v \in QueryVectors, o \in SearchOptionsSet,
          up \in BOOLEAN :
          (SearchByEmbedding(c, v, o, up) /\ vlast'.outcome = "ok")
          => vlast'.val.results
                = QdrantSearch(points, v,
                               OrDefaultWhenOmitted(o.limit, DefaultLimit),
                               OrDefaultWhenOmitted(o.threshold, DefaultThreshold))]_vars

\* C35: a data-plane call that fails with the 'not initialized' error has
\* changed nothing in the client (its configuration, providers, cache and
\* breaker) nor in the collection, and has called neither the remote
\* provider nor the local model nor the hash-based generator: when
\* searchSimilarCode fails so, its generateEmbedding did at most a cache
\* lookup.
C35_NotInitializedChangesNothing ==
    [][/\ (vlast'.outcome = "not-initialized" /\ vlast' # vlast)
             => UNCHANGED <<embedVars, breakerVars, storeVars>>
       /\ \A c \in VecCallers, up \in BOOLEAN :
             (SearchSimilarCodeSearch(c, up) /\ vlast'.outcome = "not-initialized")
             => /\ events[c] \subseteq {"hit"}
                /\ ~CacheHas(embeddingCache, text[c]) => events[c] = {}]_vars

\* C36: after an initialize() that rejects, isReady() is false, on the
\* vector store client and on the relational client, whatever the client
\* was before the call: new, ready or closed.
C36_FailedInitializeNotReady ==
    [][/\ \A importOk, pipelineOk, up, upProbe, upCreate \in BOOLEAN :
             ( /\ Initialize(importOk, pipelineOk, up, upProbe, upCreate)
               /\ ~InitializeResolves(up, upProbe, upCreate) )
             => ~initialized'
       /\ \A connects, queryOk \in BOOLEAN :
             (RelInitialize(connects, queryOk) /\ ~(connects /\ queryOk))
             => ~(relInitialized' /\ pool' # "null")]_vars

\* C37: when exportData() resolves, its documents are the stored documents,
\* each exactly once, as many as its documentCount says, and importing them
\* into an empty collection gives the collection they were exported from.
C37_ExportIsComplete ==
    [][\A c \in VecCallers, up \in BOOLEAN :
          (ExportDataStats(c, up) /\ vlast'.outcome = "ok")
          => LET documents == vlast'.val.documents
             IN  /\ {documents[i].id : i \in 1..Len(documents)} = Stored(points)
                 /\ \A i, j \in 1..Len(documents) :
                       documents[i].id = documents[j].id => i = j
                 /\ Len(documents) = vlast'.val.documentCount
                 /\ UpsertPoints(EmptyCollection, documents) = points]_vars

\* C38: every entry of the embedding cache is the vector a tier produces for
\* its text (the remote provider's, the local model's or the hash-based
\* one), never the zero vector of the catch block; a call that ends in the
\* catch block leaves the cache as it is, and a call for a text that is not
\* cached goes to the tiers.
C38_CacheHoldsTierResultsOnly ==
    /\ [](\A i \in 1..Len(embeddingCache) :
             /\ embeddingCache[i].val.tier # "zero"
             /\ embeddingCache[i].val \in
                   {RemoteVector(embeddingCache[i].key),
                    LocalModelVector(embeddingCache[i].key),
                    generateFallbackEmbedding(embeddingCache[i].key)})
    /\ [][/\ (last' # last /\ last'.ret.vec.tier = "zero")
                => embeddingCache' = embeddingCache
          /\ \A c \in Callers, t \in Texts :
                (GenerateEmbedding(c, t) /\ ~CacheHas(embeddingCache, t))
                => /\ "hit" \notin events'[c]
                   /\ last' # last => "hit" \notin last'.events]_vars

\* A call whose provider failed has returned the zero vector, and its text
\* is not in the cache, which holds another text.
C38_Witness ==
    /\ "remote-error" \in last.events
    /\ last.ret.vec.tier = "zero"
    /\ ~CacheHas(embeddingCache, last.text)
    /\ Len(embeddingCache) >= 1

\* C39: no connection of the pool is leaked: whenever no relational
\* operation is in progress, no connection is checked out.
C39_NoConnectionLeaked ==
    (\A c \in RelCallers : rpc[c] = "idle") => checkedOut = 0

\* C40: for a client built by createVectorStorage, the requests sent to the
\* vector store carry the api-key header exactly when the configuration
\* holds a key for the vector store, with that key as its value; the key of
\* the embedding provider is never the value of the header, and the key of
\* the vector store is never the key the embedding provider's client is
\* created with.
C40_CredentialsStayWithTheirService ==
    (storageConfig.fromFactory /\ vlast.sent # << >>)
    => /\ ApiKeyHeader(apiKey) = storageConfig.qdrantKey
       /\ storageConfig.openaiKey # NoKey
             => ApiKeyHeader(apiKey) # storageConfig.openaiKey
       /\ (openaiClient /\ storageConfig.qdrantKey # NoKey)
             => OpenAIApiKey(apiKey, storageConfig.envKey) # storageConfig.qdrantKey

=============================================================================
